---- MODULE Spec2Model ----
(***************************************************************************)
(* EspressFlowCV: the per-frame stream segmenter, the timeline accumulator *)
(* (process_frames_folder), the timeline-to-feature reduction              *)
(* (extract_features_from_timelines) and the rule-based classifier         *)
(* (simple_rule_classifier) of src/espresso_flow_features.py.              *)
(*                                                                         *)
(* Numbers.  Python floats are carried exactly: a float is a record        *)
(*   [k |-> "num",  n, d]   the rational n/d (d > 0, lowest terms)         *)
(*   [k |-> "root", n, d]   the square root of the rational n/d (> 0)      *)
(*   [k |-> "nan"]          np.nan                                         *)
(*   [k |-> "none"]         Python None                                    *)
(* Rounding to float32/float64 is not modelled.                            *)
(***************************************************************************)
EXTENDS Integers, Sequences, FiniteSets, TLC

VARIABLES
    files,          \* the .jpg files of the folder, sorted: each a frame or Undecodable
    fps,            \* process_frames_folder(fps=...)
    max_seconds,    \* process_frames_folder(max_seconds=...), in tenths of a second
    thr,            \* process_frames_folder(thr=...)
    pc,             \* position in the running call
    frame_files,    \* the capped file list the loop runs over
    idx,            \* number of loop iterations completed
    prev_gray_roi,  \* EspressoStreamSegmenter.prev_gray_roi
    stats,          \* the FrameStats returned by the last segment call
    width_t, area_t, cx_t, hue_t, val_t,   \* the five timelines
    feats,          \* the feature mapping returned by extract_features_from_timelines
    label,          \* the label returned by simple_rule_classifier
    columns_over_time,  \* the argument of a _make_kymograph call
    kymo,           \* the image returned by _make_kymograph
    shots,          \* the rows of the shots table of the record store
    seq,            \* the largest id the shots table has handed out
    call,           \* the last record-store method called, with its arguments
    ret,            \* what that call returned or raised
    MODEL,          \* api_server.MODEL
    MODEL_METADATA, \* api_server.MODEL_METADATA
    uploads,        \* the files present in UPLOAD_FOLDER
    requests,       \* number of analyze requests that saved their video
    response,       \* the last HTTP response of the API
    classify_call,  \* the last classify_with_trained_model call and its result
    segs,           \* the EspressoStreamSegmenter instances running side by side
    bc_contours,    \* the contours handed to a _best_component call
    bc_best,        \* what that call returned
    video,          \* the video run_extraction is working on
    frame_count,        \* run_extraction: frames read and counted so far
    saved_frame_count,  \* run_extraction: frames written by the read loop
    last_valid_frame,   \* run_extraction: copy of the last frame written
    output_dir,     \* the frame files of the video's output folder, by number
    pull_data       \* run_extraction: the rows gathered for pull_times.csv

timelines == <<width_t, area_t, cx_t, hue_t, val_t>>
pff_vars == <<files, fps, max_seconds, thr, pc, frame_files, idx, prev_gray_roi,
              stats, width_t, area_t, cx_t, hue_t, val_t, feats, label>>
kymo_vars == <<columns_over_time, kymo>>
store_vars == <<shots, seq, call, ret>>
api_vars == <<MODEL, MODEL_METADATA, uploads, requests, response, classify_call>>
\* everything outside process_frames_folder and the feature reduction
par_vars == <<segs>>
best_vars == <<bc_contours, bc_best>>
ex_vars == <<video, frame_count, saved_frame_count, last_valid_frame, output_dir, pull_data>>
more_vars == <<par_vars, best_vars, ex_vars>>
ext_vars == <<kymo_vars, store_vars, api_vars, more_vars>>
vars == <<pff_vars, ext_vars>>

----------------------------------------------------------------------------
(* Exact arithmetic on floats *)

Abs(x) == IF x < 0 THEN -x ELSE x

RECURSIVE GCD(_, _)
GCD(a, b) == IF b = 0 THEN a ELSE GCD(b, a % b)

Rat(n, d) ==
    LET s == IF d < 0 THEN -1 ELSE 1
        g == GCD(Abs(n), Abs(d))
    IN  [k |-> "num", n |-> (s * n) \div g, d |-> (s * d) \div g]

Int2F(i) == [k |-> "num", n |-> i, d |-> 1]
Zero == Int2F(0)
NaN == [k |-> "nan", n |-> 0, d |-> 1]
None == [k |-> "none", n |-> 0, d |-> 1]

isnan(x) == x.k = "nan"

RAdd(a, b) == Rat(a.n * b.d + b.n * a.d, a.d * b.d)
RSub(a, b) == Rat(a.n * b.d - b.n * a.d, a.d * b.d)
RMul(a, b) == Rat(a.n * b.n, a.d * b.d)
RDiv(a, b) == Rat(a.n * b.d, a.d * b.n)
RLt(a, b) == a.n * b.d < b.n * a.d
RLe(a, b) == a.n * b.d <= b.n * a.d

\* b - a on floats: NaN when either operand is NaN
FSub(b, a) == IF isnan(a) \/ isnan(b) THEN NaN ELSE RSub(b, a)

\* the square root of a non-negative rational
Root(r) == IF r.n = 0 THEN Zero ELSE [k |-> "root", n |-> r.n, d |-> r.d]

\* x < c, x > c, x >= c for a float x and a rational c; False on NaN, as in Python
FLt(x, c) ==
    \/ x.k = "num" /\ RLt(x, c)
    \/ x.k = "root" /\ c.n > 0 /\ x.n * c.d * c.d < c.n * c.n * x.d
FGt(x, c) ==
    \/ x.k = "num" /\ RLt(c, x)
    \/ x.k = "root" /\ (c.n < 0 \/ x.n * c.d * c.d > c.n * c.n * x.d)
FGe(x, c) ==
    \/ x.k = "num" /\ RLe(c, x)
    \/ x.k = "root" /\ (c.n <= 0 \/ x.n * c.d * c.d >= c.n * c.n * x.d)

----------------------------------------------------------------------------
(* numpy reductions on a sequence of floats *)

\* sums by halves, so that the evaluation depth grows with log(len)
RECURSIVE SeqSum(_)
SeqSum(s) ==
    IF Len(s) = 0 THEN Zero
    ELSE IF Len(s) = 1 THEN s[1]
    ELSE LET h == Len(s) \div 2
         IN  RAdd(SeqSum(SubSeq(s, 1, h)), SeqSum(SubSeq(s, h + 1, Len(s))))

RECURSIVE SeqSumSq(_)
SeqSumSq(s) ==
    IF Len(s) = 0 THEN Zero
    ELSE IF Len(s) = 1 THEN RMul(s[1], s[1])
    ELSE LET h == Len(s) \div 2
         IN  RAdd(SeqSumSq(SubSeq(s, 1, h)), SeqSumSq(SubSeq(s, h + 1, Len(s))))

\* sum of i * y[i] over the 0-based frame index i, s[1] having index i
RECURSIVE SeqSumXY(_, _)
SeqSumXY(s, i) ==
    IF Len(s) = 0 THEN Zero
    ELSE IF Len(s) = 1 THEN RMul(Int2F(i), s[1])
    ELSE LET h == Len(s) \div 2
         IN  RAdd(SeqSumXY(SubSeq(s, 1, h), i), SeqSumXY(SubSeq(s, h + 1, Len(s)), i + h))

np_mean(s) == RDiv(SeqSum(s), Int2F(Len(s)))

\* population variance, the square of np.std
np_var(s) ==
    LET mu == np_mean(s)
    IN  RSub(RDiv(SeqSumSq(s), Int2F(Len(s))), RMul(mu, mu))

np_std(s) == Root(np_var(s))

RECURSIVE np_max(_)
np_max(s) ==
    IF Len(s) = 1 THEN s[1]
    ELSE LET h == Len(s) \div 2
             l == np_max(SubSeq(s, 1, h))
             r == np_max(SubSeq(s, h + 1, Len(s)))
         IN  IF RLt(l, r) THEN r ELSE l

RECURSIVE np_min(_)
np_min(s) ==
    IF Len(s) = 1 THEN s[1]
    ELSE LET h == Len(s) \div 2
             l == np_min(SubSeq(s, 1, h))
             r == np_min(SubSeq(s, h + 1, Len(s)))
         IN  IF RLt(r, l) THEN r ELSE l

\* arr[k:] for 0 <= k
Drop(s, k) == IF k >= Len(s) THEN <<>> ELSE SubSeq(s, k + 1, Len(s))
\* arr[:k] for 0 <= k
Take(s, k) == IF k >= Len(s) THEN s ELSE SubSeq(s, 1, k)
\* arr[-k:] for 0 < k
LastN(s, k) == IF k >= Len(s) THEN s ELSE SubSeq(s, Len(s) - k + 1, Len(s))

\* Python floor division a // b for b > 0
FloorDiv(a, b) == a \div b

NotNaN(s) == SelectSeq(s, LAMBDA x : ~isnan(x))

\* np.sort on floats without NaN
np_sort(s) == SortSeq(s, LAMBDA a, b : RLt(a, b))

\* np.nanmedian: the median of the non-NaN entries, NaN when there are none
np_nanmedian(s) ==
    LET v == np_sort(NotNaN(s))
        n == Len(v)
    IN  IF n = 0 THEN NaN
        ELSE IF n % 2 = 1 THEN v[(n + 1) \div 2]
        ELSE RDiv(RAdd(v[n \div 2], v[n \div 2 + 1]), Int2F(2))

----------------------------------------------------------------------------
(* Configuration dataclasses *)

\* Thresholds(): the defaults of the dataclass (the colour gate and the motion
\* cutoff act inside OpenCV calls and are carried for completeness)
DefaultThresholds ==
    [flow_mag_thresh |-> Rat(12, 10), min_area |-> 150, min_height |-> 25,
     min_aspect |-> Rat(16, 10), h_lo |-> 5, h_hi |-> 30, s_lo |-> 40,
     v_lo |-> 20, v_hi |-> 230, onset_area_px |-> 300]

\* ROIConfig(): fractional bounds, in hundredths
DefaultROI == [x0 |-> 32, y0 |-> 15, x1 |-> 68, y1 |-> 80]

----------------------------------------------------------------------------
(* Timeline feature extraction *)

\* _first_onset: the 0-based index of the first entry >= px_thresh, None (-1 here)
\* when there is none
NoOnset == -1

\* variant: the onset test made strict
_first_onset_strict(area, px_thresh) ==
    IF \E i \in 1..Len(area) : area[i] > px_thresh
    THEN (CHOOSE i \in 1..Len(area) :
              /\ area[i] > px_thresh
              /\ \A j \in 1..(i - 1) : ~(area[j] > px_thresh)) - 1
    ELSE NoOnset

\* variant: the 1-based position returned instead of the 0-based index
_first_onset_onebased(area, px_thresh) ==
    IF \E i \in 1..Len(area) : area[i] >= px_thresh
    THEN CHOOSE i \in 1..Len(area) :
             /\ area[i] >= px_thresh
             /\ \A j \in 1..(i - 1) : ~(area[j] >= px_thresh)
    ELSE NoOnset

_first_onset(area, px_thresh) ==
    IF \E i \in 1..Len(area) : area[i] >= px_thresh
    THEN (CHOOSE i \in 1..Len(area) :
              /\ area[i] >= px_thresh
              /\ \A j \in 1..(i - 1) : ~(area[j] >= px_thresh)) - 1
    ELSE NoOnset

\* _slope: least-squares slope of y against the frame index 0..len-1
_slope(y) ==
    IF Len(y) < 2 THEN Zero
    ELSE LET n   == Len(y)
             sx  == (n * (n - 1)) \div 2
             sxx == ((n - 1) * n * (2 * n - 1)) \div 6
             sy  == SeqSum(y)
             sxy == SeqSumXY(y, 0)
         IN  RDiv(RSub(RMul(Int2F(n), sxy), RMul(Int2F(sx), sy)),
                  Int2F(n * sxx - sx * sx))

\* _cv: sd / (mu + 1e-6).  Widths are never negative, so mu = 0 only for an
\* all-zero series, where sd = 0 and the quotient is 0; for mu > 0 the 1e-6 is
\* below the resolution carried here and the value is sqrt(var / mu^2).
_cv(x) ==
    LET mu == IF Len(x) > 0 THEN np_mean(x) ELSE Zero
        var == IF Len(x) > 0 THEN np_var(x) ELSE Zero
    IN  IF mu.n = 0 THEN Zero ELSE Root(RDiv(var, RMul(mu, mu)))

\* (A2 > Thresholds().onset_area_px): the 0/1 indicator per frame
OnOff(A2) == [i \in 1..Len(A2) |-> IF A2[i] > DefaultThresholds.onset_area_px THEN 1 ELSE 0]

\* variant: the share of frames reported as a percentage
Continuity_percent(A2) ==
    IF Len(A2) > 0
    THEN Rat(100 * Cardinality({i \in 1..Len(A2) : OnOff(A2)[i] = 1}), Len(A2))
    ELSE Zero

\* float(np.mean(A2 > Thresholds().onset_area_px)) if len(A2) else 0.0
Continuity(A2) ==
    IF Len(A2) > 0
    THEN Rat(Cardinality({i \in 1..Len(A2) : OnOff(A2)[i] = 1}), Len(A2))
    ELSE Zero

\* the slice bounds of thirds_delta: arr[: n//3] and arr[- n//3 :], where
\* Python parses - n//3 as (-n)//3
FirstThird(arr) == Take(arr, FloorDiv(Len(arr), 3))
FinalThird(arr) == LastN(arr, -FloorDiv(-Len(arr), 3))

thirds_delta(arr) ==
    IF Len(arr) < 9 THEN NaN
    ELSE LET a == np_nanmedian(FirstThird(arr))
             b == np_nanmedian(FinalThird(arr))
         IN  FSub(b, a)

\* variant: the transitions counted whatever the number of samples
Flicker_unguarded(A2) ==
    LET onoff == OnOff(A2)
    IN  Cardinality({i \in 1..(Len(A2) - 1) : Abs(onoff[i + 1] - onoff[i]) = 1})

\* int(np.sum(np.abs(np.diff(onoff)) == 1)) when len(A2) > 3, else 0
Flicker(A2) ==
    IF Len(A2) > 3
    THEN LET onoff == OnOff(A2)
         IN  Cardinality({i \in 1..(Len(A2) - 1) : Abs(onoff[i + 1] - onoff[i]) = 1})
    ELSE 0

IntsToF(s) == [i \in 1..Len(s) |-> Int2F(s[i])]

\* the reductions of extract_features_from_timelines on the post-onset series
\* W2, A2, CX2, H2, V2, and the mapping it returns
FeaturesOn(onset_time, W2, A2, CX2, H2, V2) ==
    [onset_time_s |-> onset_time,
     continuity   |-> Continuity(A2),
     mean_width   |-> IF Len(W2) > 0 THEN np_mean(W2) ELSE Zero,
     cv_width     |-> IF Len(W2) > 0 THEN _cv(W2) ELSE Zero,
     amp_width    |-> IF Len(W2) > 0 THEN RSub(np_max(W2), np_min(W2)) ELSE Zero,
     slope_width  |-> IF Len(W2) > 0 THEN _slope(W2) ELSE Zero,
     jitter_cx    |-> IF Len(CX2) > 0 THEN np_std(CX2) ELSE Zero,
     delta_val    |-> thirds_delta(V2),
     delta_hue    |-> thirds_delta(H2),
     flicker      |-> Int2F(Flicker(A2))]

extract_features_from_timelines(w_t, a_t, c_t, h_t, v_t, f) ==
    LET W  == IntsToF(w_t)
        onset == _first_onset(a_t, DefaultThresholds.onset_area_px)
        onset_time == IF onset # NoOnset THEN Rat(onset, f) ELSE NaN
    IN  IF onset # NoOnset
        THEN FeaturesOn(onset_time, Drop(W, onset), Drop(a_t, onset), Drop(c_t, onset),
                        Drop(h_t, onset), Drop(v_t, onset))
        ELSE FeaturesOn(onset_time, W, a_t, c_t, h_t, v_t)

----------------------------------------------------------------------------
(* Rule-based classifier *)

Labels == {"underextracted", "overextracted", "perfect_or_mid", "mid"}

\* val_delta is not None and not np.isnan(val_delta)
Defined(x) == x.k # "none" /\ ~isnan(x)

\* variant: the perfect_or_mid test moved before the overextracted test
simple_rule_classifier_reordered(features) ==
    LET cont      == features.continuity
        mean_w    == features.mean_width
        cv_w      == features.cv_width
        val_delta == features.delta_val
        slope_w   == features.slope_width
    IN  IF \/ (FLt(cont, Rat(55, 100)) /\ FLt(mean_w, Int2F(6)))
           \/ (Defined(val_delta) /\ FGt(val_delta, Int2F(-5)))
        THEN "underextracted"
        ELSE IF FGe(cont, Rat(7, 10)) /\ FLt(cv_w, Rat(35, 100)) /\ FGe(mean_w, Int2F(6))
        THEN "perfect_or_mid"
        ELSE IF (Defined(val_delta) /\ FLt(val_delta, Int2F(-25)))
                /\ FLt(slope_w, Rat(-2, 100))
        THEN "overextracted"
        ELSE "mid"

simple_rule_classifier(features) ==
    LET cont      == features.continuity
        mean_w    == features.mean_width
        cv_w      == features.cv_width
        val_delta == features.delta_val
        slope_w   == features.slope_width
    IN  IF \/ (FLt(cont, Rat(55, 100)) /\ FLt(mean_w, Int2F(6)))
           \/ (Defined(val_delta) /\ FGt(val_delta, Int2F(-5)))
        THEN "underextracted"
        ELSE IF (Defined(val_delta) /\ FLt(val_delta, Int2F(-25)))
                /\ FLt(slope_w, Rat(-2, 100))
        THEN "overextracted"
        ELSE IF FGe(cont, Rat(7, 10)) /\ FLt(cv_w, Rat(35, 100)) /\ FGe(mean_w, Int2F(6))
        THEN "perfect_or_mid"
        ELSE "mid"

----------------------------------------------------------------------------
(* Frames.  A decoded frame is carried as its shape (H, W), the identity of  *)
(* its pixel content, and the connected components that cv2.findContours    *)
(* yields on the colour-gated motion mask when the frame moves against the  *)
(* stored previous region: per component its bounding rectangle, its        *)
(* contour area and the median hue / value of its masked pixels.            *)

Contour(x, y, w, h, area, hue, val) ==
    [x |-> x, y |-> y, w |-> w, h |-> h, area |-> area, hue |-> hue, val |-> val]

Frame(shape, gray, blobs) == [shape |-> shape, gray |-> gray, blobs |-> blobs]

\* cv2.imread(path) is None
Undecodable == Frame(<<0, 0>>, 0, <<>>)

\* _roi_rect: int(W * x0), int(H * y0), int(W * x1), int(H * y1)
_roi_rect(shape, roi_cfg) ==
    LET H == shape[1]
        W == shape[2]
    IN  [x0 |-> (W * roi_cfg.x0) \div 100, y0 |-> (H * roi_cfg.y0) \div 100,
         x1 |-> (W * roi_cfg.x1) \div 100, y1 |-> (H * roi_cfg.y1) \div 100]

----------------------------------------------------------------------------
(* Candidate selection *)

MaxOf(a, b) == IF a < b THEN b ELSE a

\* _component_score: area * (1 - 0.7 * |cx - roi_w/2| / max(1, roi_w/2))
_component_score(cx, roi_w, area) ==
    LET center == Rat(roi_w, 2)
        off    == RSub(cx, center)
        half   == IF RLt(center, Int2F(1)) THEN Int2F(1) ELSE center
        dist   == RDiv(IF off.n < 0 THEN RSub(center, cx) ELSE off, half)
    IN  RMul(Int2F(area), RSub(Int2F(1), RMul(Rat(7, 10), dist)))

NoBest == [x |-> -1, y |-> -1, w |-> 0, h |-> 0, area |-> 0, cx |-> Zero, cy |-> Zero,
           hue |-> 0, val |-> 0]

\* variant: the area filter left out
Filtered_no_area(c, t) ==
    \/ c.h < t.min_height \/ c.w < 2
    \/ RLt(Rat(c.h, MaxOf(1, c.w)), t.min_aspect)

\* the three filters of the loop body: True when the contour is skipped
Filtered(c, t) ==
    \/ c.h < t.min_height \/ c.w < 2
    \/ c.area < t.min_area
    \/ RLt(Rat(c.h, MaxOf(1, c.w)), t.min_aspect)

\* the for loop of _best_component from contour i on, carrying best, best_score
RECURSIVE BestLoop(_, _, _, _, _, _)
BestLoop(contours, i, roi_w, t, best, best_score) ==
    IF i > Len(contours) THEN best
    ELSE LET c == contours[i]
             cx == Rat(2 * c.x + c.w, 2)
             score == _component_score(cx, roi_w, c.area)
         IN  IF Filtered(c, t)
             THEN BestLoop(contours, i + 1, roi_w, t, best, best_score)
             ELSE IF RLt(best_score, score)
             THEN BestLoop(contours, i + 1, roi_w, t,
                           [x |-> c.x, y |-> c.y, w |-> c.w, h |-> c.h, area |-> c.area,
                            cx |-> cx, cy |-> Rat(2 * c.y + c.h, 2),
                            hue |-> c.hue, val |-> c.val],
                           score)
             ELSE BestLoop(contours, i + 1, roi_w, t, best, best_score)

_best_component(contours, roi_w, t) == BestLoop(contours, 1, roi_w, t, NoBest, Zero)

----------------------------------------------------------------------------
(* Core per-frame segmentation *)

FrameStats(found, area, width, height, cx, cy, hue_med, val_med) ==
    [stream_found |-> found, area |-> area, width |-> width, height |-> height,
     cx |-> cx, cy |-> cy, hue_med |-> hue_med, val_med |-> val_med]

\* self.prev_gray_roi is None
NoPrev == [shape |-> <<0, 0>>, gray |-> 0]

\* the grayscale region of a frame: its shape (roi_h, roi_w) and its content
\* (callers leave roi_cfg at its default, ROIConfig())
GrayRoi(frame) ==
    LET r == _roi_rect(frame.shape, DefaultROI)
    IN  [shape |-> <<r.y1 - r.y0, r.x1 - r.x0>>, gray |-> frame.gray]

\* variant: the stored region compared whatever its shape
FlowIsZero_anyShape(prev, gray) ==
    IF prev = NoPrev THEN TRUE
    ELSE prev.gray = gray.gray

\* the motion field: all-zero without a previous region of the same shape;
\* otherwise Farneback's flow, which is zero between identical regions
FlowIsZero(prev, gray) ==
    IF prev = NoPrev \/ prev.shape # gray.shape THEN TRUE
    ELSE prev.gray = gray.gray

\* cv2.findContours on motion_mask AND color_mask: a zero motion field leaves
\* the mask empty
FindContours(prev, frame) ==
    IF FlowIsZero(prev, GrayRoi(frame)) THEN <<>> ELSE frame.blobs

NotFound == FrameStats(FALSE, 0, 0, 0, Int2F(-1), Int2F(-1), NaN, NaN)

\* variant: the region stored only when a stream was found
segment_keep_on_miss(prev, t, frame) ==
    LET gray == GrayRoi(frame)
        roi_w == gray.shape[2]
        contours == FindContours(prev, frame)
        best == _best_component(contours, roi_w, t)
    IN  [prev_gray_roi |-> IF best = NoBest THEN prev ELSE gray,
         stats |-> IF best = NoBest THEN NotFound
                   ELSE FrameStats(TRUE, best.area, best.w, best.h, best.cx, best.cy,
                                   Int2F(best.hue), Int2F(best.val))]

\* EspressoStreamSegmenter.segment: the FrameStats returned and the region stored
segment(prev, t, frame) ==
    LET gray == GrayRoi(frame)
        roi_w == gray.shape[2]
        contours == FindContours(prev, frame)
        best == _best_component(contours, roi_w, t)
    IN  [prev_gray_roi |-> gray,
         stats |-> IF best = NoBest THEN NotFound
                   ELSE FrameStats(TRUE, best.area, best.w, best.h, best.cx, best.cy,
                                   Int2F(best.hue), Int2F(best.val))]

----------------------------------------------------------------------------
(* Kymograph *)

\* row.min() and row.max() of a non-empty row of integers
RowMin(row) == CHOOSE v \in {row[j] : j \in 1..Len(row)} :
                   \A j \in 1..Len(row) : v <= row[j]
RowMax(row) == CHOOSE v \in {row[j] : j \in 1..Len(row)} :
                   \A j \in 1..Len(row) : v >= row[j]

\* np.zeros((10, 10), dtype=np.uint8)
Zeros10x10 == [i \in 1..10 |-> [j \in 1..10 |-> 0]]

\* variant: one minimum and one maximum taken over the whole matrix
_make_kymograph_global(columns) ==
    IF Len(columns) = 0 THEN Zeros10x10
    ELSE LET all == {columns[i][j] : i \in 1..Len(columns), j \in 1..Len(columns[1])}
             lo == CHOOSE v \in all : \A u \in all : v <= u
             hi == CHOOSE v \in all : \A u \in all : v >= u
         IN  [i \in 1..Len(columns) |->
                 [j \in 1..Len(columns[i]) |->
                     IF hi = lo THEN 0
                     ELSE ((255 * (columns[i][j] - lo)) \div (hi - lo)) % 256]]

\* _make_kymograph: each row scaled by its own minimum and maximum,
\* (M - row_min) / np.maximum(1e-6, row_max - row_min), times 255, cut to
\* uint8.  The entries are integer column sums, so row_max - row_min is 0 or
\* at least 1: the quotient is 0 / 1e-6 = 0 on a constant row and
\* (v - row_min) / (row_max - row_min) otherwise (float32 rounding of the
\* quotient is not modelled; it is exact at the row minimum and maximum).
_make_kymograph(columns) ==
    IF Len(columns) = 0 THEN Zeros10x10
    ELSE [i \in 1..Len(columns) |->
             LET lo == RowMin(columns[i])
                 hi == RowMax(columns[i])
             IN  [j \in 1..Len(columns[i]) |->
                     IF hi = lo THEN 0
                     ELSE ((255 * (columns[i][j] - lo)) \div (hi - lo)) % 256]]

KymoIdle == columns_over_time = <<>> /\ kymo = <<>>

----------------------------------------------------------------------------
(* Record store: database/espresso_db.py *)

(* A Python dict is a function from its keys; {} is the empty function <<>>. *)
(* Python None is None.  A row of the shots table is a record of its        *)
(* columns (the three timestamp columns are not carried).  The store is     *)
(* [shots, seq]: the rows, and the largest id handed out (AUTOINCREMENT     *)
(* never reuses an id).                                                     *)

\* a value returned, tagged with its Python type, and an exception raised
Returns(t, v) == [t |-> t, v |-> v]
Raises(e) == [t |-> "raise", e |-> e]

\* a Python string as a dict value
PyStr(x) == [k |-> "str", n |-> 0, d |-> 1, s |-> x]

\* bool(features) of an Optional[Dict]
Truthy(features) == features # None /\ DOMAIN features # {}

\* json.dumps of a dict of floats and strings: one token per key, NaN written
\* as NaN, None as null
JsonToken(v) ==
    [t |-> IF v.k = "nan" THEN "NaN"
           ELSE IF v.k = "none" THEN "null"
           ELSE IF v.k = "str" THEN "string" ELSE "number",
     k |-> v.k, n |-> v.n, d |-> v.d,
     s |-> IF v.k = "str" THEN v.s ELSE ""]

json_dumps(obj) == [json |-> [key \in DOMAIN obj |-> JsonToken(obj[key])]]

\* json.loads: the value each token stands for
PyValue(tok) ==
    IF tok.t = "string" THEN PyStr(tok.s)
    ELSE IF tok.t = "NaN" THEN NaN
    ELSE IF tok.t = "null" THEN None
    ELSE [k |-> tok.k, n |-> tok.n, d |-> tok.d]

json_loads(text) == [key \in DOMAIN text.json |-> PyValue(text.json[key])]

\* CHECK (analysis_result IN ('good', 'under'))
ResultSet == {"good", "under"}

Filenames(rows) == {r.filename : r \in rows}

\* the constraints of the shots table on a row next to the other rows:
\* filename UNIQUE, analysis_result CHECK
RowAllowed(row, others) ==
    /\ row.filename \notin Filenames(others)
    /\ row.analysis_result \in ResultSet

\* the INSERT of add_shot
NewRow(db, filename, analysis_result, confidence, features, video_duration_s, notes) ==
    [id |-> db.seq + 1, filename |-> filename, analysis_result |-> analysis_result,
     confidence |-> confidence,
     features_json |-> IF Truthy(features) THEN json_dumps(features) ELSE None,
     video_duration_s |-> video_duration_s, notes |-> notes]

\* variant: INSERT OR REPLACE, a row with the same filename gives way
add_shot_or_replace(db, filename, analysis_result, confidence, features, video_duration_s, notes) ==
    LET row == NewRow(db, filename, analysis_result, confidence, features,
                      video_duration_s, notes)
    IN  IF row.analysis_result \notin ResultSet
        THEN [db |-> db, ret |-> Raises("IntegrityError")]
        ELSE [db |-> [shots |-> {r \in db.shots : r.filename # filename} \cup {row},
                      seq |-> db.seq + 1],
              ret |-> Returns("int", row.id)]

\* EspressoDatabase.add_shot: the id of the inserted row, or IntegrityError
\* with the transaction rolled back
add_shot(db, filename, analysis_result, confidence, features, video_duration_s, notes) ==
    LET row == NewRow(db, filename, analysis_result, confidence, features,
                      video_duration_s, notes)
    IN  IF ~RowAllowed(row, db.shots)
        THEN [db |-> db, ret |-> Raises("IntegrityError")]
        ELSE [db |-> [shots |-> db.shots \cup {row}, seq |-> db.seq + 1],
              ret |-> Returns("int", row.id)]

\* variant: the row returned as stored, features left unparsed
get_shot_by_id_raw(db, shot_id) ==
    IF \E r \in db.shots : r.id = shot_id
    THEN CHOOSE r \in db.shots : r.id = shot_id
    ELSE None

\* EspressoDatabase.get_shot_by_id: dict(row), with a features entry parsed
\* from features_json when that column is not empty; None without a row
get_shot_by_id(db, shot_id) ==
    IF \E r \in db.shots : r.id = shot_id
    THEN LET shot == CHOOSE r \in db.shots : r.id = shot_id
         IN  IF shot.features_json # None
             THEN shot @@ [features |-> json_loads(shot.features_json)]
             ELSE shot
    ELSE None

\* EspressoDatabase.update_shot: False without fields or without a row of
\* that id; the row rewritten, or IntegrityError when a constraint fails
update_shot(db, shot_id, kwargs) ==
    IF DOMAIN kwargs = {} THEN [db |-> db, ret |-> Returns("bool", FALSE)]
    ELSE IF ~\E r \in db.shots : r.id = shot_id
    THEN [db |-> db, ret |-> Returns("bool", FALSE)]
    ELSE LET old == CHOOSE r \in db.shots : r.id = shot_id
             new == [f \in DOMAIN old |-> IF f \in DOMAIN kwargs THEN kwargs[f] ELSE old[f]]
         IN  IF ~RowAllowed(new, db.shots \ {old})
             THEN [db |-> db, ret |-> Raises("IntegrityError")]
             ELSE [db |-> [shots |-> (db.shots \ {old}) \cup {new}, seq |-> db.seq],
                   ret |-> Returns("bool", TRUE)]

\* EspressoDatabase.add_notes
add_notes(db, shot_id, notes) == update_shot(db, shot_id, [notes |-> notes])

\* variant: success reported whatever the row count
delete_shot_always(db, shot_id) ==
    [db |-> [shots |-> {r \in db.shots : r.id # shot_id}, seq |-> db.seq],
     ret |-> Returns("bool", TRUE)]

\* EspressoDatabase.delete_shot: cursor.rowcount > 0
delete_shot(db, shot_id) ==
    [db |-> [shots |-> {r \in db.shots : r.id # shot_id}, seq |-> db.seq],
     ret |-> Returns("bool", \E r \in db.shots : r.id = shot_id)]

\* round(x, 1) of a float: the nearest tenth, a tie going to the even one
Round1(x) ==
    LET q == (10 * x.n) \div x.d
        r == (10 * x.n) % x.d
    IN  IF 2 * r > x.d \/ (2 * r = x.d /\ q % 2 = 1)
        THEN Rat(q + 1, 10)
        ELSE Rat(q, 10)

\* SELECT COUNT(*) ... of the rows with one label
CountLabel(db, result) == Cardinality({r \in db.shots : r.analysis_result = result})

\* variant: the total taken from the id counter
get_shots_summary_by_seq(db) ==
    LET total == db.seq
        good == CountLabel(db, "good")
        under == CountLabel(db, "under")
    IN  [total_shots |-> total, good_shots |-> good, under_shots |-> under,
         good_percentage |-> IF total > 0 THEN Round1(Rat(good * 100, total)) ELSE Zero,
         under_percentage |-> IF total > 0 THEN Round1(Rat(under * 100, total)) ELSE Zero]

\* EspressoDatabase.get_shots_summary
get_shots_summary(db) ==
    LET total == Cardinality(db.shots)
        good == CountLabel(db, "good")
        under == CountLabel(db, "under")
    IN  [total_shots |-> total, good_shots |-> good, under_shots |-> under,
         good_percentage |-> IF total > 0 THEN Round1(Rat(good * 100, total)) ELSE Zero,
         under_percentage |-> IF total > 0 THEN Round1(Rat(under * 100, total)) ELSE Zero]

\* the store as the methods see it
DB == [shots |-> shots, seq |-> seq]

NoCall == [op |-> "none"]
NoRet == [t |-> "none"]

StoreIdle == shots = {} /\ seq = 0 /\ call = NoCall /\ ret = NoRet

----------------------------------------------------------------------------
(* API server: api_server.py *)

NoResponse == [status |-> 0]

\* round(x, 3) of a float in [0, 1]: the nearest thousandth, a tie going to
\* the even one
Round3(x) ==
    LET q == (1000 * x.n) \div x.d
        r == (1000 * x.n) % x.d
    IN  IF 2 * r > x.d \/ (2 * r = x.d /\ q % 2 = 1)
        THEN Rat(q + 1, 1000)
        ELSE Rat(q, 1000)

\* the row handed to MODEL.predict_proba: the features in the order of
\* feature_names, np.nan for a name the mapping lacks
FeatureRow(feature_names, features_dict) ==
    [i \in 1..Len(feature_names) |->
        IF feature_names[i] \in DOMAIN features_dict
        THEN features_dict[feature_names[i]]
        ELSE NaN]

\* what MODEL.predict_proba does on a call: raise, or return the probability
\* p of the under class
PredictRaises == [raises |-> TRUE, p |-> NaN]
PredictReturns(p) == [raises |-> FALSE, p |-> p]

\* no classify_with_trained_model call made
NoClassify == [path |-> "none"]

\* variant: the threshold compared strictly
classify_with_trained_model_strict(features_dict, predict) ==
    IF MODEL = None \/ MODEL_METADATA = None
    THEN [path |-> "absent", classification |-> simple_rule_classifier(features_dict),
          confidence |-> Rat(1, 2)]
    ELSE LET X == FeatureRow(MODEL_METADATA.feature_names, features_dict)
         IN  IF predict.raises
             THEN [path |-> "raised", X |-> X,
                   classification |-> simple_rule_classifier(features_dict),
                   confidence |-> Rat(1, 10)]
             ELSE LET under == RLt(MODEL_METADATA.optimal_threshold, predict.p)
                  IN  [path |-> "predicted", X |-> X, p |-> predict.p,
                       classification |-> IF under THEN "under" ELSE "good",
                       confidence |-> Round3(IF under THEN predict.p
                                             ELSE RSub(Int2F(1), predict.p))]

\* classify_with_trained_model: (classification, confidence), with the path
\* taken and the row passed to the model
classify_with_trained_model(features_dict, predict) ==
    IF MODEL = None \/ MODEL_METADATA = None
    THEN [path |-> "absent", classification |-> simple_rule_classifier(features_dict),
          confidence |-> Rat(1, 2)]
    ELSE LET X == FeatureRow(MODEL_METADATA.feature_names, features_dict)
         IN  IF predict.raises
             THEN [path |-> "raised", X |-> X,
                   classification |-> simple_rule_classifier(features_dict),
                   confidence |-> Rat(1, 10)]
             ELSE LET under == RLe(MODEL_METADATA.optimal_threshold, predict.p)
                  IN  [path |-> "predicted", X |-> X, p |-> predict.p,
                       classification |-> IF under THEN "under" ELSE "good",
                       confidence |-> Round3(IF under THEN predict.p
                                             ELSE RSub(Int2F(1), predict.p))]

\* the frame extraction or process_frames_folder raised
ProcessingFailed == [ok |-> FALSE]
\* process_frames_folder returned this mapping for a video of this length
Processed(features_dict, duration_s) ==
    [ok |-> TRUE, features |-> features_dict, duration_s |-> duration_s]

\* process_video_for_api: the analysis result, and the classify call made
process_video_for_api(processing, metadata, predict) ==
    IF ~processing.ok
    THEN [classification |-> "under", confidence |-> Rat(1, 10), features |-> <<>>,
          duration_s |-> Zero, classify |-> classify_call]
    ELSE LET given == "pull_duration_s" \in DOMAIN metadata
             features_dict ==
                 IF given
                 THEN processing.features @@ [pull_duration_s |-> metadata.pull_duration_s]
                 ELSE processing.features
             c == classify_with_trained_model(features_dict, predict)
         IN  [classification |-> c.classification, confidence |-> c.confidence,
              features |-> features_dict,
              duration_s |-> IF given THEN metadata.pull_duration_s
                             ELSE processing.duration_s,
              classify |-> c @@ [features |-> features_dict]]

\* f"shot_{timestamp}_{video_id[:8]}.mp4": the uuid makes it new each time
ShotFilename(n) == <<"shot", n>>

ApiIdle ==
    /\ MODEL = None /\ MODEL_METADATA = None
    /\ uploads = {} /\ requests = 0 /\ response = NoResponse
    /\ classify_call = NoClassify

\* no segmenters side by side
ParIdle == segs = <<>>

\* no _best_component call of its own
BestIdle == bc_contours = <<>> /\ bc_best = NoBest

\* extract_frames.py not running
NoVideo == [fps |-> 0, total_frames |-> 0, readable |-> 0]
NoFrame == -1
ExtractIdle ==
    /\ video = NoVideo /\ frame_count = 0 /\ saved_frame_count = 0
    /\ last_valid_frame = NoFrame /\ output_dir = <<>> /\ pull_data = <<>>

MoreIdle == ParIdle /\ BestIdle /\ ExtractIdle

ExtIdle == KymoIdle /\ StoreIdle /\ ApiIdle /\ MoreIdle

----------------------------------------------------------------------------
(* Inputs of the model *)

MaxFiles == 3       \* most .jpg files in a folder

AltThresholds ==
    [flow_mag_thresh |-> Rat(12, 10), min_area |-> 20, min_height |-> 10,
     min_aspect |-> Rat(2, 1), h_lo |-> 5, h_hi |-> 30, s_lo |-> 40,
     v_lo |-> 20, v_hi |-> 230, onset_area_px |-> 200]

ThresholdSet == {DefaultThresholds, AltThresholds}

\* (fps, max_seconds in tenths): the defaults, and a cap of two frames
RateSet == {<<60, 70>>, <<2, 10>>}

\* components inside the 36 x 65 region of a 100 x 100 frame
Centre  == Contour(13, 10, 10, 40, 300, 15, 120)
OffSide == Contour(0, 10, 10, 40, 320, 12, 100)
Short   == Contour(5, 5, 8, 24, 160, 10, 90)
Thin    == Contour(20, 5, 1, 40, 0, 10, 90)
Small   == Contour(9, 0, 8, 30, 149, 10, 90)
Wide    == Contour(2, 30, 20, 30, 400, 10, 90)
Slim    == Contour(30, 0, 2, 40, 39, 20, 80)
EdgeH   == Contour(10, 40, 15, 25, 150, 18, 60)
EdgeA   == Contour(5, 0, 25, 40, 500, 22, 70)

FrameSet ==
    { Frame(<<100, 100>>, 1, <<Centre>>),
      Frame(<<100, 100>>, 2, <<OffSide, Centre>>),
      Frame(<<100, 100>>, 1, <<Short, Thin, Small, Wide, Slim>>),
      Frame(<<100, 100>>, 2, <<EdgeH>>),
      Frame(<<100, 100>>, 2, <<EdgeA>>),
      Frame(<<120, 160>>, 1, <<Centre>>) }

FileSet == FrameSet \cup {Undecodable}

SeqsUpTo(S, n) == UNION {[1..m -> S] : m \in 0..n}

NoFeats ==
    [onset_time_s |-> None, continuity |-> None, mean_width |-> None,
     cv_width |-> None, amp_width |-> None, slope_width |-> None,
     jitter_cx |-> None, delta_val |-> None, delta_hue |-> None, flicker |-> None]

NoStats == FrameStats(FALSE, -1, -1, -1, None, None, None, None)

----------------------------------------------------------------------------
(* Main pipeline for a folder of frames: process_frames_folder *)

Init ==
    /\ ExtIdle
    /\ files \in SeqsUpTo(FileSet, MaxFiles)
    /\ \E r \in RateSet : fps = r[1] /\ max_seconds = r[2]
    /\ thr \in ThresholdSet
    /\ pc = "start"
    /\ frame_files = <<>>
    /\ idx = 0
    /\ prev_gray_roi = NoPrev
    /\ stats = NoStats
    /\ width_t = <<>> /\ area_t = <<>> /\ cx_t = <<>> /\ hue_t = <<>> /\ val_t = <<>>
    /\ feats = NoFeats
    /\ label = "none"

\* variant: no check of the listing, the loop runs over nothing
PFF_RaiseNoFrames_unchecked ==
    /\ pc = "start"
    /\ files = <<>>
    /\ pc' = "loop"
    /\ UNCHANGED <<ext_vars, files, fps, max_seconds, thr, frame_files, idx, prev_gray_roi,
                   stats, width_t, area_t, cx_t, hue_t, val_t, feats, label>>

\* if not frame_files: raise FileNotFoundError
PFF_RaiseNoFrames ==
    /\ pc = "start"
    /\ files = <<>>
    /\ pc' = "raised"
    /\ UNCHANGED <<ext_vars, files, fps, max_seconds, thr, frame_files, idx, prev_gray_roi,
                   stats, width_t, area_t, cx_t, hue_t, val_t, feats, label>>

\* frame_files[:int(fps * max_seconds)], the segmenter and the empty timelines
PFF_Begin ==
    /\ pc = "start"
    /\ files # <<>>
    /\ frame_files' = Take(files, (fps * max_seconds) \div 10)
    /\ prev_gray_roi' = NoPrev
    /\ width_t' = <<>> /\ area_t' = <<>> /\ cx_t' = <<>> /\ hue_t' = <<>> /\ val_t' = <<>>
    /\ idx' = 0
    /\ pc' = "loop"
    /\ UNCHANGED <<ext_vars, files, fps, max_seconds, thr, stats, feats, label>>

\* variant: an undecodable file padded into the timelines as a not-found frame
PFF_SkipFrame_padded ==
    /\ pc = "loop"
    /\ idx < Len(frame_files)
    /\ frame_files[idx + 1] = Undecodable
    /\ width_t' = Append(width_t, 0)
    /\ area_t' = Append(area_t, 0)
    /\ cx_t' = Append(cx_t, Int2F(-1))
    /\ hue_t' = Append(hue_t, NaN)
    /\ val_t' = Append(val_t, NaN)
    /\ idx' = idx + 1
    /\ UNCHANGED <<ext_vars, files, fps, max_seconds, thr, pc, frame_files, prev_gray_roi,
                   stats, feats, label>>

\* one loop iteration on a file cv2.imread cannot decode: continue
PFF_SkipFrame ==
    /\ pc = "loop"
    /\ idx < Len(frame_files)
    /\ frame_files[idx + 1] = Undecodable
    /\ idx' = idx + 1
    /\ UNCHANGED <<ext_vars, files, fps, max_seconds, thr, pc, frame_files, prev_gray_roi,
                   stats, width_t, area_t, cx_t, hue_t, val_t, feats, label>>

\* variant: a segmenter built anew for every frame
PFF_Frame_fresh ==
    /\ pc = "loop"
    /\ idx < Len(frame_files)
    /\ frame_files[idx + 1] # Undecodable
    /\ LET r == segment(NoPrev, thr, frame_files[idx + 1])
       IN  /\ prev_gray_roi' = r.prev_gray_roi
           /\ stats' = r.stats
           /\ width_t' = Append(width_t, r.stats.width)
           /\ area_t' = Append(area_t, r.stats.area)
           /\ cx_t' = Append(cx_t, r.stats.cx)
           /\ hue_t' = Append(hue_t, r.stats.hue_med)
           /\ val_t' = Append(val_t, r.stats.val_med)
    /\ idx' = idx + 1
    /\ UNCHANGED <<ext_vars, files, fps, max_seconds, thr, pc, frame_files, feats, label>>

\* one loop iteration on a decoded frame: segment, then append to the timelines
PFF_Frame ==
    /\ pc = "loop"
    /\ idx < Len(frame_files)
    /\ frame_files[idx + 1] # Undecodable
    /\ LET r == segment(prev_gray_roi, thr, frame_files[idx + 1])
       IN  /\ prev_gray_roi' = r.prev_gray_roi
           /\ stats' = r.stats
           /\ width_t' = Append(width_t, r.stats.width)
           /\ area_t' = Append(area_t, r.stats.area)
           /\ cx_t' = Append(cx_t, r.stats.cx)
           /\ hue_t' = Append(hue_t, r.stats.hue_med)
           /\ val_t' = Append(val_t, r.stats.val_med)
    /\ idx' = idx + 1
    /\ UNCHANGED <<ext_vars, files, fps, max_seconds, thr, pc, frame_files, feats, label>>

\* after the loop: reduce the timelines, label them, return
PFF_Return ==
    /\ pc = "loop"
    /\ idx = Len(frame_files)
    /\ feats' = extract_features_from_timelines(width_t, area_t, cx_t, hue_t, val_t, fps)
    /\ label' = simple_rule_classifier(feats')
    /\ pc' = "done"
    /\ UNCHANGED <<ext_vars, files, fps, max_seconds, thr, frame_files, idx, prev_gray_roi,
                   stats, width_t, area_t, cx_t, hue_t, val_t>>

Next == PFF_RaiseNoFrames \/ PFF_Begin \/ PFF_SkipFrame \/ PFF_Frame \/ PFF_Return

Spec == Init /\ [][Next]_vars

----------------------------------------------------------------------------
(* Direct calls of extract_features_from_timelines on bounded timelines *)

MaxLen == 5         \* longest timeline of a direct call

Sample(w, a, cx, hue, val) == [width |-> w, area |-> a, cx |-> cx, hue |-> hue, val |-> val]

\* per-frame entries around the flow-present threshold, and a not-found frame
FeatSamples ==
    { Sample(0, 0, Int2F(-1), NaN, NaN),
      Sample(4, 299, Int2F(10), Int2F(10), Int2F(100)),
      Sample(6, 300, Int2F(11), Int2F(12), Int2F(90)),
      Sample(8, 301, Rat(25, 2), Int2F(14), Int2F(60)) }

FpsSet == {30, 60}

\* everything process_frames_folder owns, at rest
PffIdle ==
    /\ files = <<>> /\ max_seconds = 70 /\ thr = DefaultThresholds
    /\ frame_files = <<>> /\ idx = 0 /\ prev_gray_roi = NoPrev /\ stats = NoStats

Idle == PffIdle /\ ExtIdle

TimelinesFrom(fr) ==
    /\ width_t = [i \in 1..Len(fr) |-> fr[i].width]
    /\ area_t = [i \in 1..Len(fr) |-> fr[i].area]
    /\ cx_t = [i \in 1..Len(fr) |-> fr[i].cx]
    /\ hue_t = [i \in 1..Len(fr) |-> fr[i].hue]
    /\ val_t = [i \in 1..Len(fr) |-> fr[i].val]

InitFeat ==
    /\ Idle
    /\ fps \in FpsSet
    /\ \E fr \in SeqsUpTo(FeatSamples, MaxLen) : TimelinesFrom(fr)
    /\ pc = "call_extract"
    /\ feats = NoFeats
    /\ label = "none"

\* feats = extract_features_from_timelines(width_t, area_t, cx_t, hue_t, val_t, fps)
ExtractCall ==
    /\ pc = "call_extract"
    /\ feats' = extract_features_from_timelines(width_t, area_t, cx_t, hue_t, val_t, fps)
    /\ pc' = "extracted"
    /\ UNCHANGED <<ext_vars, files, fps, max_seconds, thr, frame_files, idx, prev_gray_roi,
                   stats, width_t, area_t, cx_t, hue_t, val_t, label>>

SpecFeat == InitFeat /\ [][ExtractCall]_vars

\* long timelines for the thirds of the value / hue series
MaxThirdsLen == 10

ThirdsSamples ==
    { Sample(0, 0, Int2F(-1), NaN, NaN),
      Sample(6, 300, Int2F(11), Int2F(12), Int2F(0)),
      Sample(8, 320, Int2F(12), Int2F(20), Int2F(10)) }

InitThirds ==
    /\ Idle
    /\ fps = 60
    /\ \E m \in (MaxThirdsLen - 2)..MaxThirdsLen :
           \E fr \in [1..m -> ThirdsSamples] : TimelinesFrom(fr)
    /\ pc = "call_extract"
    /\ feats = NoFeats
    /\ label = "none"

SpecThirds == InitThirds /\ [][ExtractCall]_vars

\* strictly monotonic area series
MaxMonoLen == 5

MonoSamples ==
    { Sample(0, 0, Int2F(-1), NaN, NaN),
      Sample(4, 299, Int2F(10), Int2F(10), Int2F(100)),
      Sample(6, 300, Int2F(11), Int2F(12), Int2F(90)),
      Sample(8, 301, Rat(25, 2), Int2F(14), Int2F(60)),
      Sample(9, 400, Int2F(12), Int2F(14), Int2F(50)),
      Sample(10, 500, Int2F(12), Int2F(15), Int2F(40)) }

StrictlyIncreasing(s) == \A i \in 1..(Len(s) - 1) : s[i] < s[i + 1]
StrictlyDecreasing(s) == \A i \in 1..(Len(s) - 1) : s[i] > s[i + 1]
StrictlyMonotonic(s) == StrictlyIncreasing(s) \/ StrictlyDecreasing(s)

InitMono ==
    /\ Idle
    /\ fps = 60
    /\ \E fr \in SeqsUpTo(MonoSamples, MaxMonoLen) :
           /\ StrictlyMonotonic([i \in 1..Len(fr) |-> fr[i].area])
           /\ TimelinesFrom(fr)
    /\ pc = "call_extract"
    /\ feats = NoFeats
    /\ label = "none"

SpecMono == InitMono /\ [][ExtractCall]_vars

\* step timelines: k frames below the threshold, then one value above it
MaxStepLen == 20

StepLow == <<Sample(0, 0, Int2F(-1), NaN, NaN),
             Sample(4, 299, Int2F(10), Int2F(10), Int2F(100))>>

StepHigh == {Sample(8, 301, Rat(25, 2), Int2F(14), Int2F(60)),
             Sample(10, 500, Int2F(12), Int2F(15), Int2F(40))}

\* the low part: all not found, all just below the threshold, or alternating
StepLowPatterns == {<<1, 1>>, <<2, 2>>, <<1, 2>>}

InitStep ==
    /\ Idle
    /\ fps \in FpsSet
    /\ \E n \in 1..MaxStepLen, hi \in StepHigh, lo \in StepLowPatterns :
           \E k \in 0..(n - 1) :
               TimelinesFrom([i \in 1..n |->
                   IF i <= k THEN StepLow[lo[(i % 2) + 1]] ELSE hi])
    /\ pc = "call_extract"
    /\ feats = NoFeats
    /\ label = "none"

SpecStep == InitStep /\ [][ExtractCall]_vars

----------------------------------------------------------------------------
(* Direct calls of _make_kymograph on bounded lists of column vectors *)

MaxKymoRows == 2    \* most column vectors of a call

\* column sums of 255 - gray
ColumnSums == {0, 7, 20}
KymoWidths == {2, 3}

\* the feature pipeline at rest, no call of it running
PffRest ==
    /\ PffIdle
    /\ fps = 60
    /\ width_t = <<>> /\ area_t = <<>> /\ cx_t = <<>> /\ hue_t = <<>> /\ val_t = <<>>
    /\ feats = NoFeats
    /\ label = "none"

InitKymo ==
    /\ PffRest /\ StoreIdle /\ ApiIdle /\ MoreIdle
    /\ pc = "call_kymo"
    /\ \E w \in KymoWidths, m \in 0..MaxKymoRows :
           columns_over_time \in [1..m -> [1..w -> ColumnSums]]
    /\ kymo = <<>>

\* kymo = _make_kymograph(columns_over_time)
MakeKymograph ==
    /\ pc = "call_kymo"
    /\ kymo' = _make_kymograph(columns_over_time)
    /\ pc' = "kymo_made"
    /\ UNCHANGED <<files, fps, max_seconds, thr, frame_files, idx, prev_gray_roi,
                   stats, width_t, area_t, cx_t, hue_t, val_t, feats, label>>
    /\ UNCHANGED <<columns_over_time, store_vars, api_vars, more_vars>>

SpecKymo == InitKymo /\ [][MakeKymograph]_vars

----------------------------------------------------------------------------
(* The record store under its callers: the methods called directly, as the *)
(* test script does, and through the shot handlers of the API              *)

MaxId == 2          \* most rows ever inserted

FileNames == {"a.mp4", "b.mp4"}

\* a features mapping with a NaN entry
SomeFeatures == [continuity |-> Rat(87, 100), delta_val |-> NaN]

\* add_shot arguments: a full record, the record of a failed analysis (empty
\* features), the defaults, and a label of the rule-based classifier
ShotArgs ==
    { [analysis_result |-> "good", confidence |-> Rat(87, 100), features |-> SomeFeatures,
       video_duration_s |-> Rat(51, 2), notes |-> "n1"],
      [analysis_result |-> "under", confidence |-> Rat(1, 10), features |-> <<>>,
       video_duration_s |-> Zero, notes |-> ""],
      [analysis_result |-> "good", confidence |-> Zero, features |-> None,
       video_duration_s |-> None, notes |-> ""],
      [analysis_result |-> "perfect_or_mid", confidence |-> Rat(1, 2), features |-> SomeFeatures,
       video_duration_s |-> Rat(51, 2), notes |-> ""] }

KwargsSet ==
    { <<>>,
      [notes |-> "n2"],
      [confidence |-> Rat(3, 4), notes |-> "n2"],
      [analysis_result |-> "under"],
      [analysis_result |-> "invalid"],
      [filename |-> "a.mp4"] }

\* request.get_json() of a notes request
NotesData == {None, <<>>, [text |-> "n2"], [notes |-> "n2"]}

Ids == 1..(MaxId + 1)

InitStore ==
    /\ PffRest /\ KymoIdle /\ StoreIdle /\ ApiIdle /\ MoreIdle
    /\ pc = "serving"

\* one call of a store method: the store it leaves and what it returned
StoreCall(c, r) ==
    /\ shots' = r.db.shots
    /\ seq' = r.db.seq
    /\ call' = c
    /\ ret' = r.ret

\* what a step on the store leaves alone
StoreFrame ==
    /\ UNCHANGED <<pff_vars, kymo_vars, more_vars>>
    /\ UNCHANGED <<MODEL, MODEL_METADATA, uploads, requests, classify_call>>

\* db.add_shot(filename, analysis_result, confidence, features, video_duration_s, notes)
AddShot ==
    /\ pc = "serving"
    /\ seq < MaxId
    /\ \E fn \in FileNames, a \in ShotArgs :
           StoreCall([op |-> "add_shot", via |-> "direct", filename |-> fn,
                      analysis_result |-> a.analysis_result, confidence |-> a.confidence,
                      features |-> a.features, video_duration_s |-> a.video_duration_s,
                      notes |-> a.notes],
                     add_shot(DB, fn, a.analysis_result, a.confidence, a.features,
                              a.video_duration_s, a.notes))
    /\ response' = NoResponse
    /\ StoreFrame

\* db.get_shot_by_id(shot_id)
GetShotById ==
    /\ pc = "serving"
    /\ \E id \in Ids :
           LET shot == get_shot_by_id(DB, id)
           IN  StoreCall([op |-> "get_shot_by_id", via |-> "direct", id |-> id],
                         [db |-> DB,
                          ret |-> IF shot = None THEN Returns("None", None)
                                  ELSE Returns("dict", shot)])
    /\ response' = NoResponse
    /\ StoreFrame

\* db.update_shot(shot_id, **kwargs)
UpdateShot ==
    /\ pc = "serving"
    /\ \E id \in Ids, kw \in KwargsSet :
           StoreCall([op |-> "update_shot", via |-> "direct", id |-> id, kwargs |-> kw],
                     update_shot(DB, id, kw))
    /\ response' = NoResponse
    /\ StoreFrame

\* db.add_notes(shot_id, notes)
AddNotes ==
    /\ pc = "serving"
    /\ \E id \in Ids :
           StoreCall([op |-> "add_notes", via |-> "direct", id |-> id, notes |-> "n2"],
                     add_notes(DB, id, "n2"))
    /\ response' = NoResponse
    /\ StoreFrame

\* db.delete_shot(shot_id)
DeleteShot ==
    /\ pc = "serving"
    /\ \E id \in Ids :
           StoreCall([op |-> "delete_shot", via |-> "direct", id |-> id],
                     delete_shot(DB, id))
    /\ response' = NoResponse
    /\ StoreFrame

\* db.get_shots_summary()
GetShotsSummary ==
    /\ pc = "serving"
    /\ StoreCall([op |-> "get_shots_summary", via |-> "direct"],
                 [db |-> DB, ret |-> Returns("summary", get_shots_summary(DB))])
    /\ response' = NoResponse
    /\ StoreFrame

\* GET /api/shots/<id>
ApiGetShot ==
    /\ pc = "serving"
    /\ \E id \in Ids :
           LET shot == get_shot_by_id(DB, id)
           IN  /\ StoreCall([op |-> "get_shot_by_id", via |-> "api", id |-> id],
                            [db |-> DB,
                             ret |-> IF shot = None THEN Returns("None", None)
                                     ELSE Returns("dict", shot)])
               /\ response' = IF shot = None
                              THEN [status |-> 404, error |-> "Shot not found"]
                              ELSE [status |-> 200, shot |-> shot]
    /\ StoreFrame

\* DELETE /api/shots/<id>
ApiDeleteShot ==
    /\ pc = "serving"
    /\ \E id \in Ids :
           LET r == delete_shot(DB, id)
           IN  /\ StoreCall([op |-> "delete_shot", via |-> "api", id |-> id], r)
               /\ response' = IF ~r.ret.v
                              THEN [status |-> 404, error |-> "Shot not found"]
                              ELSE [status |-> 200, message |-> "deleted"]
    /\ StoreFrame

\* PUT /api/shots/<id>/notes
ApiUpdateShotNotes ==
    /\ pc = "serving"
    /\ \E id \in Ids, data \in NotesData :
           IF data = None \/ DOMAIN data = {} \/ "notes" \notin DOMAIN data
           THEN /\ response' = [status |-> 400, error |-> "Notes field required"]
                /\ call' = NoCall /\ ret' = NoRet
                /\ UNCHANGED <<shots, seq>>
           ELSE LET r == add_notes(DB, id, data.notes)
                IN  /\ StoreCall([op |-> "add_notes", via |-> "api", id |-> id,
                                  notes |-> data.notes], r)
                    /\ response' = IF ~r.ret.v
                                   THEN [status |-> 404, error |-> "Shot not found"]
                                   ELSE [status |-> 200, message |-> "Notes updated"]
    /\ StoreFrame

NextStore ==
    \/ AddShot \/ GetShotById \/ UpdateShot \/ AddNotes \/ DeleteShot
    \/ GetShotsSummary
    \/ ApiGetShot \/ ApiDeleteShot \/ ApiUpdateShotNotes

SpecStore == InitStore /\ [][NextStore]_vars

----------------------------------------------------------------------------
(* The analyze endpoint of the API server *)

MaxRequests == 2    \* most analyze requests that reach the pipeline

\* feature mappings of process_frames_folder, one per label of the
\* rule-based classifier
PerfectFeats ==
    [onset_time_s |-> Rat(1, 2), continuity |-> Rat(9, 10), mean_width |-> Int2F(20),
     cv_width |-> Rat(1, 10), amp_width |-> Int2F(3), slope_width |-> Zero,
     jitter_cx |-> Zero, delta_val |-> NaN, delta_hue |-> NaN, flicker |-> Zero]

ApiFeatSet ==
    { PerfectFeats,
      [PerfectFeats EXCEPT !.continuity = Rat(54, 100), !.mean_width = Int2F(5)],
      [PerfectFeats EXCEPT !.delta_val = Int2F(-30), !.slope_width = Rat(-5, 100)],
      [PerfectFeats EXCEPT !.continuity = Rat(6, 10)] }

\* feats["label_rule_based"] = simple_rule_classifier(feats)
WithLabel(f) == f @@ [label_rule_based |-> PyStr(simple_rule_classifier(f))]

ProcessingSet ==
    {ProcessingFailed} \cup {Processed(WithLabel(f), Int2F(7)) : f \in ApiFeatSet}

\* the metadata form field, parsed: absent, or notes with a pull duration
MetadataSet == {<<>>, [notes |-> "n1", pull_duration_s |-> Int2F(25)]}

ProbSet == {Rat(3499, 10000), Rat(1, 2), Rat(8766, 10000)}
PredictSet == {PredictRaises} \cup {PredictReturns(p) : p \in ProbSet}

\* what load_trained_model left: nothing, a model without its metadata, or
\* both
LoadedSet ==
    { [MODEL |-> None, MODEL_METADATA |-> None],
      [MODEL |-> [pipeline |-> "loaded"], MODEL_METADATA |-> None],
      [MODEL |-> [pipeline |-> "loaded"],
       MODEL_METADATA |-> [feature_names |-> <<"continuity", "pull_duration_s", "delta_val">>,
                           optimal_threshold |-> Rat(1, 2)]],
      [MODEL |-> [pipeline |-> "loaded"],
       MODEL_METADATA |-> [feature_names |-> <<"mean_width", "flicker">>,
                           optimal_threshold |-> Rat(35, 100)]] }

InitApi ==
    /\ PffRest /\ KymoIdle /\ StoreIdle /\ MoreIdle
    /\ pc = "serving"
    /\ \E m \in LoadedSet : MODEL = m.MODEL /\ MODEL_METADATA = m.MODEL_METADATA
    /\ uploads = {} /\ requests = 0 /\ response = NoResponse
    /\ classify_call = NoClassify

\* POST /api/analyze turned down before the video is saved
AnalyzeBadRequest ==
    /\ pc = "serving"
    /\ \E why \in {"No video file provided", "No video file selected", "Video too large"} :
           response' = [status |-> 400, error |-> why]
    /\ call' = NoCall /\ ret' = NoRet
    /\ UNCHANGED <<pff_vars, kymo_vars, more_vars, shots, seq>>
    /\ UNCHANGED <<MODEL, MODEL_METADATA, uploads, requests, classify_call>>

\* POST /api/analyze: save the video, process it, store the shot, remove the
\* video, answer; any exception on the way answers 500
AnalyzeShot ==
    /\ pc = "serving"
    /\ requests < MaxRequests
    /\ \E processing \in ProcessingSet, metadata \in MetadataSet, predict \in PredictSet :
           LET filename == ShotFilename(requests + 1)
               result == process_video_for_api(processing, metadata, predict)
               notes == IF "notes" \in DOMAIN metadata THEN metadata.notes ELSE ""
               r == add_shot(DB, filename, result.classification, result.confidence,
                             result.features, result.duration_s, notes)
           IN  /\ classify_call' = result.classify
               /\ StoreCall([op |-> "add_shot", via |-> "api", filename |-> filename,
                             analysis_result |-> result.classification,
                             confidence |-> result.confidence,
                             features |-> result.features,
                             video_duration_s |-> result.duration_s, notes |-> notes], r)
               /\ IF r.ret.t = "raise"
                  THEN /\ uploads' = uploads \cup {filename}
                       /\ response' = [status |-> 500, error |-> "Analysis failed"]
                  ELSE /\ uploads' = uploads
                       /\ response' = [status |-> 200, shot_id |-> r.ret.v,
                                       filename |-> filename,
                                       analysis_result |-> result.classification,
                                       confidence |-> result.confidence,
                                       features |-> result.features]
    /\ requests' = requests + 1
    /\ UNCHANGED <<pff_vars, kymo_vars, more_vars, MODEL, MODEL_METADATA>>

NextApi == AnalyzeBadRequest \/ AnalyzeShot

SpecApi == InitApi /\ [][NextApi]_vars

----------------------------------------------------------------------------
(* Direct calls of simple_rule_classifier on a grid of feature mappings *)

ContinuitySet == {Rat(54, 100), Rat(55, 100), Rat(69, 100), Rat(7, 10), Rat(9, 10)}
MeanWidthSet == {Int2F(5), Int2F(6), Int2F(20)}
CvWidthSet == {Rat(1, 10), Rat(35, 100), Root(Rat(1, 9)), Root(Rat(1, 8))}
DeltaValSet == {None, NaN, Int2F(-30), Int2F(-25), Int2F(-5), Int2F(-4), Int2F(3)}
SlopeWidthSet == {Rat(-5, 100), Rat(-2, 100), Zero}

InitClassify ==
    /\ Idle
    /\ fps = 60
    /\ width_t = <<>> /\ area_t = <<>> /\ cx_t = <<>> /\ hue_t = <<>> /\ val_t = <<>>
    /\ pc = "call_classify"
    /\ \E c \in ContinuitySet, m \in MeanWidthSet, v \in CvWidthSet,
          d \in DeltaValSet, sl \in SlopeWidthSet :
           feats = [NoFeats EXCEPT !.continuity = c, !.mean_width = m, !.cv_width = v,
                                   !.delta_val = d, !.slope_width = sl]
    /\ label = "none"

\* label = simple_rule_classifier(feats)
ClassifyCall ==
    /\ pc = "call_classify"
    /\ label' = simple_rule_classifier(feats)
    /\ pc' = "classified"
    /\ UNCHANGED <<ext_vars, files, fps, max_seconds, thr, frame_files, idx, prev_gray_roi,
                   stats, width_t, area_t, cx_t, hue_t, val_t, feats>>

SpecClassify == InitClassify /\ [][ClassifyCall]_vars

----------------------------------------------------------------------------
(* Two segmenter instances side by side, one per video, their segment calls *)
(* interleaved in any order                                                 *)

MaxParLen == 2      \* most frames of one video

Instances == {1, 2}

ParFrames ==
    { Frame(<<100, 100>>, 1, <<Centre>>),
      Frame(<<100, 100>>, 2, <<OffSide, Centre>>),
      Frame(<<120, 160>>, 1, <<Centre>>) }

\* EspressoStreamSegmenter(roi_cfg, thr) of instance i, with the frames it
\* is going to be given
NewSegmenter(t, frames) ==
    [thr |-> t, frames |-> frames, pos |-> 0, prev_gray_roi |-> NoPrev, results |-> <<>>]

InitPar ==
    /\ PffRest /\ KymoIdle /\ StoreIdle /\ ApiIdle /\ BestIdle /\ ExtractIdle
    /\ pc = "parallel"
    /\ \E t1 \in ThresholdSet, t2 \in ThresholdSet,
          f1 \in SeqsUpTo(ParFrames, MaxParLen), f2 \in SeqsUpTo(ParFrames, MaxParLen) :
           segs = <<NewSegmenter(t1, f1), NewSegmenter(t2, f2)>>

\* variant: the stored region kept on the class, one for all instances
ParSegment_shared(i) ==
    /\ pc = "parallel"
    /\ segs[i].pos < Len(segs[i].frames)
    /\ LET me == segs[i]
           r == segment(me.prev_gray_roi, me.thr, me.frames[me.pos + 1])
       IN  segs' = [j \in DOMAIN segs |->
                       IF j = i
                       THEN [me EXCEPT !.pos = me.pos + 1,
                                       !.prev_gray_roi = r.prev_gray_roi,
                                       !.results = Append(me.results, r.stats)]
                       ELSE [segs[j] EXCEPT !.prev_gray_roi = r.prev_gray_roi]]
    /\ UNCHANGED <<pff_vars, kymo_vars, store_vars, api_vars, best_vars, ex_vars>>

\* instance i segments its next frame
ParSegment(i) ==
    /\ pc = "parallel"
    /\ segs[i].pos < Len(segs[i].frames)
    /\ LET me == segs[i]
           r == segment(me.prev_gray_roi, me.thr, me.frames[me.pos + 1])
       IN  segs' = [segs EXCEPT ![i] = [me EXCEPT !.pos = me.pos + 1,
                                                  !.prev_gray_roi = r.prev_gray_roi,
                                                  !.results = Append(me.results, r.stats)]]
    /\ UNCHANGED <<pff_vars, kymo_vars, store_vars, api_vars, best_vars, ex_vars>>

ParSegment1 == ParSegment(1)
ParSegment2 == ParSegment(2)

NextPar == ParSegment1 \/ ParSegment2

SpecPar == InitPar /\ [][NextPar]_vars

----------------------------------------------------------------------------
(* Frame supply: run_extraction of extract_frames.py on one video.  A video  *)
(* is its frame rate, the frame count its container reports and the number  *)
(* of frames cap.read() delivers before it fails; frame k of the video is   *)
(* carried as the number k.                                                 *)

clip_duration_sec == 7
target_fps == 60

MaxTotalFrames == 460   \* most frames of a video

VideoFpsSet == {2, 30}
TotalFramesSet == {0, 2, 3, 20, 31, 40, MaxTotalFrames}

VideoSet ==
    { [fps |-> f, total_frames |-> n, readable |-> r] :
        f \in VideoFpsSet, n \in TotalFramesSet, r \in TotalFramesSet }

MinOf(a, b) == IF a < b THEN a ELSE b

\* round(x, 2) of a float: the nearest hundredth, a tie going to the even one
Round2(x) ==
    LET q == (100 * x.n) \div x.d
        r == (100 * x.n) % x.d
    IN  IF 2 * r > x.d \/ (2 * r = x.d /\ q % 2 = 1)
        THEN Rat(q + 1, 100)
        ELSE Rat(q, 100)

\* max_frames = int(min(clip_duration_sec * target_fps, total_frames))
max_frames == MinOf(clip_duration_sec * target_fps, video.total_frames)

\* frames_to_skip = int(fps)
frames_to_skip == video.fps

\* cv2.imwrite of frame_{i:03d}.jpg into the output folder
imwrite(dir, i, frame) ==
    [k \in DOMAIN dir \cup {i} |-> IF k = i THEN frame ELSE dir[k]]

\* the padding loop: for i in range(from, to): imwrite(frame_i, frame)
PadFrom(dir, from, to, frame) ==
    IF from >= to THEN dir
    ELSE [k \in DOMAIN dir \cup (from..(to - 1)) |->
             IF k \in from..(to - 1) THEN frame ELSE dir[k]]

\* the video opened, the counters set, nothing read yet
InitExtract ==
    /\ PffRest /\ KymoIdle /\ StoreIdle /\ ApiIdle /\ ParIdle /\ BestIdle
    /\ pc = "read_loop"
    /\ video \in VideoSet
    /\ frame_count = 0 /\ saved_frame_count = 0
    /\ last_valid_frame = NoFrame
    /\ output_dir = <<>>
    /\ pull_data = <<>>

ExtractFrame ==
    UNCHANGED <<files, fps, max_seconds, thr, frame_files, idx, prev_gray_roi,
                stats, width_t, area_t, cx_t, hue_t, val_t, feats, label,
                kymo_vars, store_vars, api_vars, par_vars, best_vars>>

\* the while condition fails: the frames wanted are saved
RE_Enough ==
    /\ pc = "read_loop"
    /\ ~(saved_frame_count < max_frames)
    /\ pc' = "pad"
    /\ UNCHANGED ex_vars
    /\ ExtractFrame

\* cap.read() returns ret = False: break
RE_EndOfVideo ==
    /\ pc = "read_loop"
    /\ saved_frame_count < max_frames
    /\ frame_count >= video.readable
    /\ pc' = "pad"
    /\ UNCHANGED ex_vars
    /\ ExtractFrame

\* a frame of the first second: counted, not saved
RE_Skip ==
    /\ pc = "read_loop"
    /\ saved_frame_count < max_frames
    /\ frame_count < video.readable
    /\ frame_count < frames_to_skip
    /\ frame_count' = frame_count + 1
    /\ UNCHANGED <<pc, video, saved_frame_count, last_valid_frame, output_dir, pull_data>>
    /\ ExtractFrame

\* a frame after the first second: kept as last_valid_frame and written
RE_Save ==
    /\ pc = "read_loop"
    /\ saved_frame_count < max_frames
    /\ frame_count < video.readable
    /\ ~(frame_count < frames_to_skip)
    /\ last_valid_frame' = frame_count
    /\ output_dir' = imwrite(output_dir, saved_frame_count, frame_count)
    /\ saved_frame_count' = saved_frame_count + 1
    /\ frame_count' = frame_count + 1
    /\ UNCHANGED <<pc, video, pull_data>>
    /\ ExtractFrame

\* after the loop: pad with the last frame when there is one
RE_Pad ==
    /\ pc = "pad"
    /\ output_dir' = IF saved_frame_count < max_frames /\ last_valid_frame # NoFrame
                     THEN PadFrom(output_dir, saved_frame_count, max_frames, last_valid_frame)
                     ELSE output_dir
    /\ pc' = "record"
    /\ UNCHANGED <<video, frame_count, saved_frame_count, last_valid_frame, pull_data>>
    /\ ExtractFrame

\* pull_data.append((video_name, pull_duration, max_frames))
RE_Record ==
    /\ pc = "record"
    /\ pull_data' = Append(pull_data,
                           [pull_duration |-> Round2(Rat(video.total_frames, video.fps)),
                            frames_saved |-> max_frames])
    /\ pc' = "recorded"
    /\ UNCHANGED <<video, frame_count, saved_frame_count, last_valid_frame, output_dir>>
    /\ ExtractFrame

NextExtract == RE_Enough \/ RE_EndOfVideo \/ RE_Skip \/ RE_Save \/ RE_Pad \/ RE_Record

SpecExtract == InitExtract /\ [][NextExtract]_vars

----------------------------------------------------------------------------
(* Direct calls of _best_component on bounded contour lists, in the region  *)
(* of a 100 x 100 frame                                                     *)

MaxContours == 3    \* most contours of one mask

\* the area filter switched off
NoAreaThresholds == [DefaultThresholds EXCEPT !.min_area = 0]

BestThresholdSet == ThresholdSet \cup {NoAreaThresholds}

\* two components of one size at one distance left and right of the centre
LeftOf  == Contour(3, 10, 10, 40, 300, 15, 120)
RightOf == Contour(23, 10, 10, 40, 300, 15, 120)
\* a steep one-pixel line: two pixels wide, enclosing no area
Line    == Contour(17, 0, 2, 40, 0, 15, 120)

BestContours == {Centre, LeftOf, RightOf, OffSide, Line, Short, Thin, Small, Wide}

\* roi_w of the call
BestRoiW == GrayRoi(Frame(<<100, 100>>, 1, <<>>)).shape[2]

InitBest ==
    /\ KymoIdle /\ StoreIdle /\ ApiIdle /\ ParIdle /\ ExtractIdle
    /\ files = <<>> /\ max_seconds = 70 /\ fps = 60
    /\ frame_files = <<>> /\ idx = 0 /\ prev_gray_roi = NoPrev /\ stats = NoStats
    /\ width_t = <<>> /\ area_t = <<>> /\ cx_t = <<>> /\ hue_t = <<>> /\ val_t = <<>>
    /\ feats = NoFeats /\ label = "none"
    /\ thr \in BestThresholdSet
    /\ pc = "call_best"
    /\ bc_contours \in SeqsUpTo(BestContours, MaxContours)
    /\ bc_best = NoBest

\* best = _best_component(contours, roi_w, self.thr)
BestCall ==
    /\ pc = "call_best"
    /\ bc_best' = _best_component(bc_contours, BestRoiW, thr)
    /\ pc' = "best_called"
    /\ UNCHANGED <<files, fps, max_seconds, thr, frame_files, idx, prev_gray_roi,
                   stats, width_t, area_t, cx_t, hue_t, val_t, feats, label>>
    /\ UNCHANGED <<kymo_vars, store_vars, api_vars, par_vars, ex_vars, bc_contours>>

SpecBest == InitBest /\ [][BestCall]_vars

----------------------------------------------------------------------------
(* Properties of the feature reduction *)

FlowPresent(a) == a >= DefaultThresholds.onset_area_px

\* the 1-based positions of the frames whose area reaches the threshold
OnsetSet == {i \in 1..Len(area_t) : FlowPresent(area_t[i])}

HasOnset == OnsetSet # {}

\* the 1-based position of the onset frame; 1 when there is no onset, so that
\* From(s, OnsetPos) is then the full sequence
OnsetPos == IF HasOnset THEN CHOOSE i \in OnsetSet : \A j \in OnsetSet : i <= j ELSE 1

\* the entries of s from 1-based position k to the end
From(s, k) == [i \in 1..(Len(s) - k + 1) |-> s[i + k - 1]]

PostArea == From(area_t, OnsetPos)
PostVal == From(val_t, OnsetPos)
PostHue == From(hue_t, OnsetPos)

\* C1: the onset is the first frame whose area is >= the flow-present
\* threshold; onset_time_s is onset_index / fps, NaN when no frame reaches the
\* threshold; every other feature is the reduction of the sub-sequence that
\* starts at the onset frame (of the full sequence without an onset).
C1_OnsetAndPostOnset ==
    pc = "extracted" =>
        /\ IF HasOnset
           THEN /\ ~isnan(feats.onset_time_s)
                /\ RMul(feats.onset_time_s, Int2F(fps)) = Int2F(OnsetPos - 1)
           ELSE isnan(feats.onset_time_s)
        /\ feats = FeaturesOn(feats.onset_time_s, From(IntsToF(width_t), OnsetPos),
                              PostArea, From(cx_t, OnsetPos), PostHue, PostVal)

\* C1 witness: a call whose onset frame is not the first frame and sits
\* exactly on the threshold
C1_Witness ==
    /\ pc = "extracted"
    /\ HasOnset /\ OnsetPos > 1
    /\ area_t[OnsetPos] = DefaultThresholds.onset_area_px
    /\ Len(area_t) > OnsetPos

\* C2 (as claimed): continuity is the number of post-onset frames whose area
\* is >= the flow-present threshold divided by the number of post-onset frames.
C2_ContinuityAtOrAbove ==
    (pc = "extracted" /\ Len(PostArea) > 0) =>
        feats.continuity =
            Rat(Cardinality({i \in 1..Len(PostArea) : FlowPresent(PostArea[i])}),
                Len(PostArea))

\* C3 (as claimed): flicker is the number of adjacent post-onset pairs whose
\* flow-present indicator (area >= threshold) differs when there are more than
\* 3 post-onset samples, and 0 otherwise.
C3_FlickerAtOrAbove ==
    pc = "extracted" =>
        feats.flicker =
            Int2F(IF Len(PostArea) > 3
                  THEN Cardinality({i \in 1..(Len(PostArea) - 1) :
                           FlowPresent(PostArea[i]) # FlowPresent(PostArea[i + 1])})
                  ELSE 0)

\* the delta of a series as claimed: NaN below 9 samples, else the median of
\* the last n div 3 samples minus the median of the first n div 3 samples
ThirdsDeltaClaimed(X) ==
    LET n == Len(X)
        q == n \div 3
    IN  IF n < 9 THEN NaN
        ELSE FSub(np_nanmedian([i \in 1..q |-> X[n - q + i]]),
                  np_nanmedian([i \in 1..q |-> X[i]]))

\* C4 (as claimed): for brightness and for hue the delta is NaN when fewer than
\* 9 post-onset samples exist, and otherwise the median of the final third of
\* the post-onset series minus the median of its first third.
C4_ThirdsDelta ==
    pc = "extracted" =>
        /\ feats.delta_val = ThirdsDeltaClaimed(PostVal)
        /\ feats.delta_hue = ThirdsDeltaClaimed(PostHue)

\* C11: continuity lies in [0, 1]; onset_time_s is NaN or lies between 0 and
\* (number of frames of the timeline) / fps.
C11_Ranges ==
    pc = "extracted" =>
        /\ feats.continuity.k = "num"
        /\ RLe(Zero, feats.continuity) /\ RLe(feats.continuity, Int2F(1))
        /\ \/ isnan(feats.onset_time_s)
           \/ /\ feats.onset_time_s.k = "num"
              /\ RLe(Zero, feats.onset_time_s)
              /\ RLe(feats.onset_time_s, Rat(Len(area_t), fps))

\* C11 witness: a call with a late onset and continuity strictly inside (0, 1)
C11_Witness ==
    /\ pc = "extracted"
    /\ ~isnan(feats.onset_time_s) /\ RLt(Zero, feats.onset_time_s)
    /\ RLt(Zero, feats.continuity) /\ RLt(feats.continuity, Int2F(1))

PostAreaCrosses ==
    /\ \E i \in 1..Len(PostArea) : PostArea[i] > DefaultThresholds.onset_area_px
    /\ \E i \in 1..Len(PostArea) : PostArea[i] <= DefaultThresholds.onset_area_px

StepAt(k) ==
    /\ \A i \in 1..k : area_t[i] < DefaultThresholds.onset_area_px
    /\ area_t[k + 1] > DefaultThresholds.onset_area_px
    /\ \A i \in (k + 1)..Len(area_t) : area_t[i] = area_t[k + 1]

\* C13: on a step timeline with k frames below the threshold the onset index
\* is k (onset_time_s = k / fps), continuity is 1.0 and flicker is 0.
C13_StepTimeline ==
    pc = "extracted" =>
        \A k \in 0..(Len(area_t) - 1) :
            StepAt(k) =>
                /\ feats.onset_time_s = Rat(k, fps)
                /\ feats.continuity = Int2F(1)
                /\ feats.flicker = Zero

\* C13 witness: 20 frames, area 0 for frames 0..4 and 500 from frame 5 on
C13_Witness ==
    /\ pc = "extracted"
    /\ Len(area_t) = 20
    /\ StepAt(5)
    /\ \A i \in 1..5 : area_t[i] = 0
    /\ area_t[6] = 500

Constant(row) == \A j \in 1..Len(row) : row[j] = row[1]

\* C15: _make_kymograph returns the 10 x 10 zero image on an empty list, and
\* otherwise one row per column vector, each as wide as its vector; a
\* non-constant row has minimum 0 and maximum 255, a constant row is all zero,
\* and each row is what the function returns for that row alone.
C15_Kymograph ==
    pc = "kymo_made" =>
        IF columns_over_time = <<>>
        THEN kymo = [i \in 1..10 |-> [j \in 1..10 |-> 0]]
        ELSE /\ Len(kymo) = Len(columns_over_time)
             /\ \A i \in 1..Len(kymo) :
                    /\ Len(kymo[i]) = Len(columns_over_time[i])
                    /\ \A j \in 1..Len(kymo[i]) : kymo[i][j] \in 0..255
                    /\ IF Constant(columns_over_time[i])
                       THEN \A j \in 1..Len(kymo[i]) : kymo[i][j] = 0
                       ELSE /\ \E j \in 1..Len(kymo[i]) : kymo[i][j] = 0
                            /\ \E j \in 1..Len(kymo[i]) : kymo[i][j] = 255
                    /\ kymo[i] = _make_kymograph(<<columns_over_time[i]>>)[1]

\* C15 witness: a non-constant row with an entry strictly between its minimum
\* and maximum, next to a constant non-zero row
C15_Witness ==
    /\ pc = "kymo_made"
    /\ columns_over_time = <<<<7, 20, 0>>, <<7, 7, 7>>>>
    /\ kymo = <<<<89, 255, 0>>, <<0, 0, 0>>>>

----------------------------------------------------------------------------
(* Properties of the rule-based classifier *)

ValueDeltaDefined == feats.delta_val.k \in {"num", "root"}

Rule1 ==
    \/ FLt(feats.continuity, Rat(55, 100)) /\ FLt(feats.mean_width, Int2F(6))
    \/ ValueDeltaDefined /\ FGt(feats.delta_val, Int2F(-5))
Rule2 ==
    /\ ValueDeltaDefined /\ FLt(feats.delta_val, Int2F(-25))
    /\ FLt(feats.slope_width, Rat(-2, 100))
Rule3 ==
    /\ FGe(feats.continuity, Rat(70, 100))
    /\ FLt(feats.cv_width, Rat(35, 100))
    /\ FGe(feats.mean_width, Int2F(6))

\* C5: the four rules are tried in the fixed order 1, 2, 3, 4 and the first
\* that matches gives the label; rule 1 wins whatever else holds, and rule 2
\* wins over rule 3.
C5_Cascade ==
    pc = "classified" =>
        /\ Rule1 => label = "underextracted"
        /\ (~Rule1 /\ Rule2) => label = "overextracted"
        /\ (~Rule1 /\ ~Rule2 /\ Rule3) => label = "perfect_or_mid"
        /\ (~Rule1 /\ ~Rule2 /\ ~Rule3) => label = "mid"

\* C5 witness: rules 2 and 3 both match, rule 1 does not, the label is
\* overextracted
C5_Witness ==
    /\ pc = "classified"
    /\ ~Rule1 /\ Rule2 /\ Rule3
    /\ label = "overextracted"

----------------------------------------------------------------------------
(* Properties of process_frames_folder and of segment *)

\* C7: on an empty frame sequence process_frames_folder raises and returns no
\* feature vector and no label.
C7_EmptyFolderRaises ==
    files = <<>> =>
        /\ \/ pc = "start" /\ ENABLED PFF_RaiseNoFrames /\ ~ENABLED PFF_Begin
           \/ pc = "raised"
        /\ feats = NoFeats
        /\ label = "none"

\* C7 witness: the call on an empty folder has raised
C7_Witness == files = <<>> /\ pc = "raised"

AllUndecodable == \A i \in 1..Len(files) : files[i] = Undecodable

\* C8 (as claimed): with a non-empty frame sequence of which no frame decodes,
\* process_frames_folder does not return a feature vector and a label.
C8_ZeroDecodedFails ==
    (files # <<>> /\ AllUndecodable) =>
        /\ pc # "done"
        /\ feats = NoFeats
        /\ label = "none"

\* the number of frames decoded by the iterations completed so far
Decoded == Cardinality({i \in 1..idx : frame_files[i] # Undecodable})

NextUndecodable ==
    pc = "loop" /\ idx < Len(frame_files) /\ frame_files[idx + 1] = Undecodable

\* C9: during and after the accumulation loop the five timelines have the
\* same length, the number of frames decoded so far; an iteration on a frame
\* that fails to decode appends to no timeline and calls no segmenter (the
\* stored region and the last result stay as they are).
C9_TimelinesAligned ==
    /\ [](pc \in {"loop", "done"} =>
            /\ Len(width_t) = Decoded /\ Len(area_t) = Decoded
            /\ Len(cx_t) = Decoded /\ Len(hue_t) = Decoded /\ Len(val_t) = Decoded)
    /\ [][NextUndecodable => UNCHANGED <<timelines, prev_gray_roi, stats>>]_vars

\* C9 witness: a finished loop that decoded some frames and skipped others
C9_Witness ==
    /\ pc = "done"
    /\ Decoded > 0
    /\ Decoded < Len(frame_files)

\* one loop iteration that calls segment on a decoded frame
SegmentCall ==
    /\ pc = "loop" /\ idx < Len(frame_files)
    /\ frame_files[idx + 1] # Undecodable
    /\ idx' = idx + 1

\* C14: a segment call with no stored region, with a stored region of other
\* dimensions, or on a frame identical to the one before, has an all-zero
\* motion field and returns not found.
C14_ZeroMotionNotFound ==
    [][SegmentCall =>
          LET g == GrayRoi(frame_files[idx + 1])
          IN  (prev_gray_roi = NoPrev \/ prev_gray_roi.shape # g.shape \/ prev_gray_roi = g)
                  => /\ FlowIsZero(prev_gray_roi, g)
                     /\ stats' = NotFound
                     /\ prev_gray_roi' = g]_vars

\* C14 witness: three identical frames holding a component that passes every
\* filter, none of them found
C14_Witness ==
    /\ pc = "loop" /\ idx = 3
    /\ frame_files = <<Frame(<<100, 100>>, 1, <<Centre>>),
                       Frame(<<100, 100>>, 1, <<Centre>>),
                       Frame(<<100, 100>>, 1, <<Centre>>)>>
    /\ area_t = <<0, 0, 0>>
    /\ stats = NotFound

\* C10: a not-found FrameStats has zero area, width and height, centroid
\* (-1, -1) and NaN hue and brightness; a found one has width >= 2,
\* height >= min_height, area >= min_area and height / width >= min_aspect.
C10_FrameStatsShape ==
    stats # NoStats =>
        IF stats.stream_found
        THEN /\ stats.width >= 2
             /\ stats.height >= thr.min_height
             /\ stats.area >= thr.min_area
             /\ RLe(thr.min_aspect, Rat(stats.height, stats.width))
        ELSE /\ stats.area = 0 /\ stats.width = 0 /\ stats.height = 0
             /\ stats.cx = Int2F(-1) /\ stats.cy = Int2F(-1)
             /\ isnan(stats.hue_med) /\ isnan(stats.val_med)

\* C10 witness: a found stream on the height and area minimums
C10_Witness ==
    /\ stats # NoStats
    /\ stats.stream_found
    /\ stats.height = thr.min_height
    /\ stats.area = thr.min_area

----------------------------------------------------------------------------
(* Properties of the record store *)

\* the store after the step
DBNext == [shots |-> shots', seq |-> seq']

Present(id) == \E r \in shots : r.id = id

\* the step is a call of a store method that names the row id: the add_shot
\* that created it, or an update, add_notes or delete on it
Targets(id) ==
    \/ call'.op = "add_shot" /\ ret'.t = "int" /\ ret'.v = id
    \/ call'.op \in {"update_shot", "add_notes", "delete_shot"} /\ call'.id = id

\* a call on no id, or on another id, leaves what get_shot_by_id(id) returns
OtherIdsKeep ==
    \A id \in Ids : ~Targets(id) => get_shot_by_id(DBNext, id) = get_shot_by_id(DB, id)

\* the record read back under the id add_shot returned carries the scalar
\* arguments of the call
ScalarsReadBack(shot) ==
    /\ shot # None
    /\ shot.filename = call'.filename
    /\ shot.analysis_result = call'.analysis_result
    /\ shot.confidence = call'.confidence
    /\ shot.notes = call'.notes

\* C18 (as claimed): after an accepted add_shot, get_shot_by_id on the
\* returned id gives a record whose filename, analysis_result, confidence,
\* notes and features are the values passed, for any features mapping; calls
\* on other ids do not change it.
C18_RoundTrip ==
    [][/\ (call'.op = "add_shot" /\ ret'.t = "int" /\ call'.features # None) =>
              LET shot == get_shot_by_id(DBNext, ret'.v)
              IN  /\ ScalarsReadBack(shot)
                  /\ "features" \in DOMAIN shot
                  /\ shot.features = call'.features
       /\ OtherIdsKeep]_vars

\* C18 (amended): the same for every non-empty features mapping; for an
\* empty mapping, and for no mapping, the record read back has an empty
\* features_json column and no features entry.
C18_RoundTripNonEmpty ==
    [][/\ (call'.op = "add_shot" /\ ret'.t = "int") =>
              LET shot == get_shot_by_id(DBNext, ret'.v)
              IN  /\ ScalarsReadBack(shot)
                  /\ IF call'.features # None /\ DOMAIN call'.features # {}
                     THEN /\ "features" \in DOMAIN shot
                          /\ shot.features = call'.features
                     ELSE /\ "features" \notin DOMAIN shot
                          /\ shot.features_json = None
       /\ OtherIdsKeep]_vars

\* C18 witness: the record of id 1, created with a features mapping, read
\* back whole after a second record was created and deleted
C18_Witness ==
    /\ call.op = "delete_shot" /\ call.id = 2 /\ ret.t = "bool" /\ ret.v
    /\ Present(1)
    /\ "features" \in DOMAIN get_shot_by_id(DB, 1)
    /\ get_shot_by_id(DB, 1).features = SomeFeatures
    /\ get_shot_by_id(DB, 1).notes = "n1"

\* C19: delete_shot on a present id returns True and removes that row and
\* no other, after which get_shot_by_id returns None; on an absent id
\* get_shot_by_id returns None, delete_shot and add_notes return False, no
\* row changes, and a handler of the API answers 404.
C19_DeleteAndNotFound ==
    [][/\ (call'.op = "delete_shot" /\ Present(call'.id)) =>
              /\ ret'.t = "bool" /\ ret'.v
              /\ shots' = {r \in shots : r.id # call'.id}
              /\ Cardinality(shots') = Cardinality(shots) - 1
              /\ get_shot_by_id(DBNext, call'.id) = None
       /\ (call'.op \in {"delete_shot", "add_notes", "get_shot_by_id"}
             /\ ~Present(call'.id)) =>
              /\ IF call'.op = "get_shot_by_id" THEN ret'.t = "None"
                 ELSE ret'.t = "bool" /\ ~ret'.v
              /\ shots' = shots
              /\ call'.via = "api" => response'.status = 404]_vars

\* C19 witness: of two records one was deleted and the other is left
C19_Witness ==
    /\ call.op = "delete_shot" /\ ret.t = "bool" /\ ret.v
    /\ seq = 2
    /\ Cardinality(shots) = 1
    /\ \A r \in shots : r.id # call.id

\* C20: add_shot with a filename already stored, or with an analysis_result
\* other than good and under, raises and leaves the store as it was; all
\* stored filenames are distinct and every stored analysis_result is good or
\* under.
C20_Constraints ==
    /\ [][(/\ call'.op = "add_shot"
            /\ \/ call'.filename \in Filenames(shots)
               \/ call'.analysis_result \notin {"good", "under"})
           => (ret'.t = "raise" /\ shots' = shots /\ seq' = seq)]_vars
    /\ [](/\ \A r1, r2 \in shots : r1.filename = r2.filename => r1 = r2
          /\ \A r \in shots : r.analysis_result \in {"good", "under"})

\* C20 witness: an add_shot with a valid label was rejected for its filename
C20_Witness ==
    /\ call.op = "add_shot" /\ ret.t = "raise"
    /\ call.analysis_result = "good"
    /\ call.filename \in Filenames(shots)

----------------------------------------------------------------------------
(* Properties of the API server *)

\* the last step was an analyze request whose video was processed and whose
\* result went to the record store
AnalyzedProcessed ==
    /\ call.op = "add_shot" /\ call.via = "api"
    /\ DOMAIN call.features # {}

\* C16 (as claimed): with the trained classifier absent or raising, a
\* processed analyze request is answered 200 with the label of the rule-based
\* classifier and confidence 0.5 (absent) or 0.1 (raised), and the shot is
\* stored, whatever that label is.
C16_FallbackStoredAndReturned ==
    (AnalyzedProcessed /\ classify_call.path \in {"absent", "raised"}) =>
        /\ response.status = 200
        /\ response.analysis_result = simple_rule_classifier(call.features)
        /\ response.confidence = IF classify_call.path = "absent" THEN Rat(1, 2)
                                 ELSE Rat(1, 10)
        /\ \E r \in shots : /\ r.id = response.shot_id
                             /\ r.analysis_result = response.analysis_result
                             /\ r.confidence = response.confidence

\* the model returned a probability on the last classify call
Predicted == AnalyzedProcessed /\ classify_call.path = "predicted"

\* the label follows the threshold, and a feature name the mapping lacks is
\* passed as NaN
ThresholdAndRow ==
    /\ classify_call.classification =
           IF RLe(MODEL_METADATA.optimal_threshold, classify_call.p) THEN "under" ELSE "good"
    /\ Len(classify_call.X) = Len(MODEL_METADATA.feature_names)
    /\ \A i \in 1..Len(classify_call.X) :
           LET name == MODEL_METADATA.feature_names[i]
           IN  classify_call.X[i] = IF name \in DOMAIN classify_call.features
                                    THEN classify_call.features[name]
                                    ELSE NaN

\* C17 (as claimed): with probability p of the under class the label is
\* under with confidence p iff p >= optimal_threshold, otherwise good with
\* confidence 1 - p; a missing feature is passed as NaN.
C17_ThresholdExact ==
    Predicted =>
        /\ ThresholdAndRow
        /\ classify_call.confidence =
               IF classify_call.classification = "under" THEN classify_call.p
               ELSE RSub(Int2F(1), classify_call.p)

\* C17 (amended): the same, the confidence being p, or 1 - p, rounded to
\* three decimals.
C17_ThresholdRounded ==
    Predicted =>
        /\ ThresholdAndRow
        /\ LET c == IF classify_call.classification = "under" THEN classify_call.p
                    ELSE RSub(Int2F(1), classify_call.p)
           IN  /\ RLe(Rat(2000 * c.n - c.d, 2000 * c.d), classify_call.confidence)
               /\ RLe(classify_call.confidence, Rat(2000 * c.n + c.d, 2000 * c.d))
               /\ (1000 * classify_call.confidence.n) % classify_call.confidence.d = 0

\* C17 witness: p on the threshold gives under, with a feature name the
\* mapping lacks passed as NaN
C17_Witness ==
    /\ Predicted
    /\ classify_call.p = MODEL_METADATA.optimal_threshold
    /\ classify_call.classification = "under"
    /\ "pull_duration_s" \notin DOMAIN classify_call.features
    /\ classify_call.X[2] = NaN

\* C21: get_shots_summary reports total_shots as the number of stored rows,
\* good_shots and under_shots as the number of rows with each label, the two
\* adding up to the total, and both percentages 0 for an empty store.
C21_Summary ==
    (call.op = "get_shots_summary" /\ ret.t = "summary") =>
        /\ ret.v.total_shots = Cardinality(shots)
        /\ ret.v.good_shots = Cardinality({r \in shots : r.analysis_result = "good"})
        /\ ret.v.under_shots = Cardinality({r \in shots : r.analysis_result = "under"})
        /\ ret.v.good_shots + ret.v.under_shots = ret.v.total_shots
        /\ shots = {} => /\ ret.v.good_percentage = Zero
                         /\ ret.v.under_percentage = Zero

\* C21 witness: a summary of a store that has lost a row, with both labels
\* seen
C21_Witness ==
    /\ call.op = "get_shots_summary" /\ ret.t = "summary"
    /\ seq = 2 /\ Cardinality(shots) = 1
    /\ ret.v.total_shots = 1 /\ ret.v.good_shots = 1
    /\ ret.v.good_percentage = Int2F(100)

----------------------------------------------------------------------------
(* Properties of segmenters side by side *)

\* one segmenter given the first k of these frames in order, alone
RECURSIVE RunAlone(_, _, _)
RunAlone(frames, t, k) ==
    IF k = 0 THEN [prev_gray_roi |-> NoPrev, results |-> <<>>]
    ELSE LET before == RunAlone(frames, t, k - 1)
             r == segment(before.prev_gray_roi, t, frames[k])
         IN  [prev_gray_roi |-> r.prev_gray_roi,
              results |-> Append(before.results, r.stats)]

\* C22: whatever the interleaving of the segment calls of two instances, each
\* instance has returned the results, and holds the previous region, that it
\* has when its own frames are processed alone in order.
C22_Independent ==
    pc = "parallel" =>
        \A i \in DOMAIN segs :
            LET alone == RunAlone(segs[i].frames, segs[i].thr, segs[i].pos)
            IN  /\ segs[i].results = alone.results
                /\ segs[i].prev_gray_roi = alone.prev_gray_roi

\* C22 witness: instance 1 has found a stream on its second frame while
\* instance 2 is between its two frames, of other content
C22_Witness ==
    /\ pc = "parallel"
    /\ segs[1].pos = 2 /\ segs[1].results[2].stream_found
    /\ segs[2].pos = 1 /\ Len(segs[2].frames) = 2
    /\ segs[2].prev_gray_roi # segs[1].prev_gray_roi

----------------------------------------------------------------------------
(* Properties of the frame supply *)

\* the read loop wrote fewer frames than wanted
ShortVideo == saved_frame_count < max_frames

\* C23 (as claimed): when fewer frames than the target are decoded after the
\* first second, the output folder ends up with exactly max_frames files
\* numbered from 0, those past the decoded ones copies of the last decoded
\* frame, and the recorded frame count is the number of files written.
C23_PaddedToTarget ==
    (pc = "recorded" /\ ShortVideo) =>
        /\ DOMAIN output_dir = 0..(max_frames - 1)
        /\ \A i \in saved_frame_count..(max_frames - 1) : output_dir[i] = last_valid_frame
        /\ pull_data[Len(pull_data)].frames_saved = Cardinality(DOMAIN output_dir)

----------------------------------------------------------------------------
(* Properties of the segmenter inside the accumulation loop *)

\* the decoded frames among the first k files of the loop
DecodedUpTo(k) == SelectSeq(SubSeq(frame_files, 1, k), LAMBDA f : f # Undecodable)

\* C24: after every segment call, stream found or not, the stored previous
\* region is the grayscale region of the frame just processed; no other step
\* changes it; and call k+1 computes its motion field against the region
\* stored by call k (a stream is found only if the frame moved against it).
C24_PreviousRegion ==
    /\ []((pc = "loop" /\ Decoded > 0) =>
            prev_gray_roi = GrayRoi(DecodedUpTo(idx)[Decoded]))
    /\ [][IF SegmentCall
          THEN /\ prev_gray_roi' = GrayRoi(frame_files[idx + 1])
               /\ stats'.stream_found =>
                      ~FlowIsZero(prev_gray_roi, GrayRoi(frame_files[idx + 1]))
               /\ FlowIsZero(prev_gray_roi, GrayRoi(frame_files[idx + 1])) =>
                      stats' = NotFound
          ELSE UNCHANGED prev_gray_roi]_vars

\* C24 witness: a second segment call found no stream and the stored region
\* is that of its frame, not of the frame before
C24_Witness ==
    /\ pc = "loop" /\ idx = 2
    /\ frame_files[1] # Undecodable /\ frame_files[2] # Undecodable
    /\ ~stats.stream_found
    /\ prev_gray_roi = GrayRoi(frame_files[2])
    /\ prev_gray_roi # GrayRoi(frame_files[1])

----------------------------------------------------------------------------
(* Properties of the candidate selection *)

\* the four filters as stated: the contour survives
PassesAll(c, t) ==
    /\ c.h >= t.min_height
    /\ c.w >= 2
    /\ c.area >= t.min_area
    /\ RLe(t.min_aspect, Rat(c.h, c.w))

Survivors == {i \in 1..Len(bc_contours) : PassesAll(bc_contours[i], thr)}

\* the contour the returned tuple was made from
IsBest(c) ==
    /\ bc_best.x = c.x /\ bc_best.y = c.y /\ bc_best.w = c.w /\ bc_best.h = c.h
    /\ bc_best.area = c.area

ScoreOf(i) ==
    _component_score(Rat(2 * bc_contours[i].x + bc_contours[i].w, 2), BestRoiW,
                     bc_contours[i].area)

\* C25 (as claimed): a stream is found iff some contour passes all four
\* filters; a contour failing a filter is never selected; and every
\* surviving candidate has a strictly positive score, so none is lost to it.
C25_FoundIffSurvivor ==
    pc = "best_called" =>
        /\ (bc_best # NoBest) <=> (Survivors # {})
        /\ bc_best # NoBest => \E i \in Survivors : IsBest(bc_contours[i])
        /\ \A i \in Survivors : RLt(Zero, ScoreOf(i))

\* C26 (as claimed): among the survivors the one returned has the maximal
\* score, and is the first of those that have it; an off-centre survivor is
\* penalized, not excluded.
C26_MaximalFirst ==
    (pc = "best_called" /\ Survivors # {}) =>
        LET top == {i \in Survivors : \A j \in Survivors : RLe(ScoreOf(j), ScoreOf(i))}
            first == CHOOSE i \in top : \A j \in top : i <= j
        IN  /\ bc_best # NoBest
            /\ IsBest(bc_contours[first])
            /\ \A i \in Survivors :
                   /\ RLe(ScoreOf(i), Int2F(bc_contours[i].area))
                   /\ (Survivors = {i} => IsBest(bc_contours[i]))

\* what one segmenter returns on the decoded frames of the first k files
ResultsUpTo(k) ==
    LET decoded == DecodedUpTo(k)
    IN  RunAlone(decoded, thr, Len(decoded)).results

\* C27: the loop runs over the first int(fps * max_seconds) files in their
\* order, one file per iteration, calling segment once on each decoded one;
\* entry i of every timeline is the statistic that one segmenter, given the
\* decoded frames in order, returns for the i-th of them.
C27_InOrderOnce ==
    /\ [](pc \in {"loop", "done"} =>
            /\ Len(frame_files) <= (fps * max_seconds) \div 10
            /\ frame_files = SubSeq(files, 1, Len(frame_files))
            /\ LET res == ResultsUpTo(idx)
               IN  /\ Len(area_t) = Len(res)
                   /\ \A i \in 1..Len(res) :
                          /\ width_t[i] = res[i].width /\ area_t[i] = res[i].area
                          /\ cx_t[i] = res[i].cx /\ hue_t[i] = res[i].hue_med
                          /\ val_t[i] = res[i].val_med)
    /\ [][pc = "loop" => idx' \in {idx, idx + 1}]_vars
    /\ [][SegmentCall => stats' = segment(prev_gray_roi, thr, frame_files[idx + 1]).stats]_vars

\* C27 witness: a folder of three frames capped to two, both decoded, a stream
\* found on the second
C27_Witness ==
    /\ pc = "done"
    /\ Len(files) = 3 /\ Len(frame_files) = 2
    /\ Len(area_t) = 2 /\ area_t[2] > 0

----------------------------------------------------------------------------
(* Properties of the thresholds inside process_frames_folder *)

\* onset, continuity and flicker of the timelines with px as the flow-present
\* area threshold, the comparisons as the reduction makes them
ReductionWith(px) ==
    LET onset == _first_onset(area_t, px)
        A2 == IF onset # NoOnset THEN Drop(area_t, onset) ELSE area_t
        on == [i \in 1..Len(A2) |-> IF A2[i] > px THEN 1 ELSE 0]
    IN  [onset_time_s |-> IF onset # NoOnset THEN Rat(onset, fps) ELSE NaN,
         continuity |-> IF Len(A2) > 0
                        THEN Rat(Cardinality({i \in 1..Len(A2) : on[i] = 1}), Len(A2))
                        ELSE Zero,
         flicker |-> IF Len(A2) > 3
                     THEN Int2F(Cardinality({i \in 1..(Len(A2) - 1) :
                                                Abs(on[i + 1] - on[i]) = 1}))
                     ELSE Zero]

\* C28 (as claimed): the onset, continuity and flicker that
\* process_frames_folder returns are those of the timelines under the
\* onset_area_px of the thresholds it was given.
C28_PassedThreshold ==
    pc = "done" =>
        LET r == ReductionWith(thr.onset_area_px)
        IN  /\ feats.onset_time_s = r.onset_time_s
            /\ feats.continuity = r.continuity
            /\ feats.flicker = r.flicker

----------------------------------------------------------------------------
(* Properties of the windows of thirds_delta *)

\* C29 (as claimed): on a post-onset series of n >= 9 samples the first and
\* the final window of thirds_delta hold n // 3 samples each, the first and
\* the last n // 3, and do not overlap.
C29_WindowSizes ==
    (pc = "extracted" /\ Len(PostVal) >= 9) =>
        LET n == Len(PostVal)
            first == FirstThird(PostVal)
            final == FinalThird(PostVal)
        IN  /\ Len(first) = n \div 3 /\ Len(final) = n \div 3
            /\ first = SubSeq(PostVal, 1, n \div 3)
            /\ final = SubSeq(PostVal, n - (n \div 3) + 1, n)
            /\ Len(first) + Len(final) <= n

----------------------------------------------------------------------------
(* Properties of the upload folder *)

\* C30 (as claimed): once an analyze request that saved its video has been
\* answered, with success or with an error, its video is no longer in the
\* upload folder.
C30_UploadRemoved ==
    \A n \in 1..requests : ShotFilename(n) \notin uploads

====
